---- MODULE Spec2Model ----
(***************************************************************************)
(* Model of the bar-monitor counting pipeline:                             *)
(*   CentroidTracker / EntryExitCounter  (hailo_integration/               *)
(*                                        counting_logic.py)               *)
(*   DwellSession / DwellTimeTracker     (hailo_integration/               *)
(*                                        dwell_time_tracker.py)           *)
(*   OccupancyTracker                    (hailo_integration/               *)
(*                                        occupancy_tracker.py)            *)
(*                                                                         *)
(* Wall-clock values (time.time(), datetime) are integer seconds since a   *)
(* Monday 00:00:00.  Distances are kept squared, so that the comparison    *)
(* d <= max_distance of the code is d*d <= max_distance*max_distance.      *)
(* A float number of minutes is the exact fraction <<seconds, 60>>.        *)
(* An Optional value is <<>> (None / SQL NULL) or <<v>>.                   *)
(***************************************************************************)
EXTENDS Integers, Sequences, FiniteSets, TLC

VARIABLES
    \* CentroidTracker
    tracks,             \* track_id -> TrackedPerson
    next_id,
    \* EntryExitCounter
    entry_direction,    \* "down" or "up"
    dwell_tracker,      \* TRUE when a DwellTimeTracker is attached
    total_entries,
    total_exits,
    current_occupancy,
    track_states,       \* track_id -> "above" / "below"
    ret,                \* value returned by the last update(): <<new_entries, new_exits>>
    events,             \* crossings logged by the last update(): <<track_id, direction>>
    emitted,            \* track_id -> number of crossings logged for it so far
    notified,           \* calls made to the dwell tracker so far: <<"entry"/"exit", track_id>>
    frames,             \* number of update() calls so far
    now,                \* wall clock, seconds
    \* DwellTimeTracker
    warning_threshold,  \* minutes
    alert_threshold,    \* minutes
    active_sessions,    \* track_id -> DwellSession
    ledger,             \* rows of the sessions table, in rowid order
    calls,              \* the last calls made on the store (most recent last)
    ncalls,             \* number of calls made on the store
    active_norestart,   \* the same calls applied to a store that is never restarted
    ledger_norestart,
    \* OccupancyTracker
    occ,                \* the fields current_occupancy, total_entries, total_exits, active_tracks
    last_snapshot_time,
    snapshot_interval,  \* seconds
    running,
    snapshots,          \* rows of the snapshots table, in id order
    event_rows,         \* rows of the events table, in id order
    timer_pc,           \* the snapshot thread: "check", "sleep", "done" ("none": not started)
    wake_at,            \* when the snapshot thread's time.sleep() is over
    stop_pc,            \* a caller of stop(): "idle", "join", "final"
    join_deadline,      \* when snapshot_thread.join(timeout=5.0) gives up
    stops,              \* number of stop() calls that have returned
    snapshot_by,        \* who wrote each snapshot row: "update", "timer", "stop"
    rows_at_stop,       \* number of snapshot rows when stop() last returned
    history,            \* the update() and reset_counters() calls completed so far
    lock,               \* who holds OccupancyTracker.lock: "free", "frame", "timer"
    frame,              \* the update() call in progress on the frame thread
    store_lock,         \* who holds DwellTimeTracker.lock: "free" or a thread
    threads,            \* thread -> its call on the store, in progress or returned
    failed_writes,      \* number of ledger writes that have failed
    storage_dir,        \* the directory of db_path on disk: "missing" or "present"
    built_on,           \* storage_dir when DwellTimeTracker() was called ("none": not yet)
    sqlite_sequence,    \* the last AUTOINCREMENT id given to a row of sessions
    resets,             \* number of EntryExitCounter.reset() calls so far
    matching            \* what the last CentroidTracker.update() matched

counterVars == <<tracks, next_id, entry_direction, dwell_tracker, total_entries,
                 total_exits, current_occupancy, track_states, ret, events,
                 emitted, notified, frames, now>>
storeVars == <<active_sessions, ledger>>
callVars == <<calls, ncalls, active_norestart, ledger_norestart>>
alertVars == <<warning_threshold, alert_threshold>>
occupancyVars == <<occ, last_snapshot_time, snapshot_interval, running, snapshots,
                   event_rows, timer_pc, wake_at, stop_pc, join_deadline, stops,
                   snapshot_by, rows_at_stop, history>>
lockVars == <<lock, frame>>
threadVars == <<store_lock, threads, failed_writes>>
configVars == <<storage_dir, built_on>>
retentionVars == <<sqlite_sequence>>
resetVars == <<resets>>
matchVars == <<matching>>
unlockedVars == <<threadVars, configVars, retentionVars, resetVars, matchVars>>
fineVars == <<lockVars, threadVars, configVars, retentionVars, resetVars, matchVars>>
vars == <<tracks, next_id, entry_direction, dwell_tracker, total_entries,
          total_exits, current_occupancy, track_states, ret, events,
          emitted, notified, frames, now, active_sessions, ledger,
          calls, ncalls, active_norestart, ledger_norestart,
          warning_threshold, alert_threshold,
          occ, last_snapshot_time, snapshot_interval, running, snapshots,
          event_rows, timer_pc, wake_at, stop_pc, join_deadline, stops,
          snapshot_by, rows_at_stop, history, lock, frame,
          store_lock, threads, failed_writes, storage_dir, built_on,
          sqlite_sequence, resets, matching>>

----------------------------------------------------------------------------
\* Bounds of the model

MaxFrames == 5      \* update() calls in a run
MaxDet == 1         \* detections in one frame
MaxTicks == 1       \* pauses of TickSeconds between frames
MaxCalls == 4       \* calls on the session store in a run
MaxStamp == 2       \* caller-supplied timestamps are 0..MaxStamp steps of StampStep
MaxTrackId == 1     \* identity IDs a caller passes to the store are 1..MaxTrackId
MaxVisits == 2      \* record_entry calls in a run that watches the dwell alerts
MaxTotal == 2       \* cumulative totals passed to OccupancyTracker.update() are 0..MaxTotal
MaxUpdates == 2     \* OccupancyTracker.update() calls in a run
MaxStops == 2       \* stop() calls in a run
MaxIntervals == 1   \* the clock runs for MaxIntervals snapshot intervals
MaxThreadCalls == 4 \* calls made on the store by its threads in a run
MaxFailures == 1    \* ledger writes that fail in a run
MaxDays == 2        \* days that pass in a run that cleans up old sessions
MaxResets == 1      \* EntryExitCounter.reset() calls in a run
MaxSeen == 2        \* detections in one frame given to a CentroidTracker alone
MaxRounds == 2      \* frames given to a CentroidTracker alone
MaxSightings == 3   \* frames given to a CentroidTracker between pauses
MaxWait == 2        \* seconds that pass in a run of a CentroidTracker with pauses

\* Centroids offered by the detector: a point above and a point below the
\* counting line, within max_distance of each other (frames 3 and 4 of the
\* doorway walk in counting_logic.py).
Points == {<<320, 290>>, <<320, 310>>}

\* A pause between frames, longer than max_disappeared / 30.0 seconds
TickSeconds == 2

StampStep == 13 * 3600 + 47 * 60
Stamps == {k * StampStep : k \in 0..MaxStamp}
TrackIds == 1..MaxTrackId

----------------------------------------------------------------------------
\* Program constants

counting_line_y == 300
max_disappeared == 30
max_distance == 50
fps == 30
maxlen == 30
inf == 1000000000
SecondsPerMinute == 60

None == <<>>
Some(v) == <<v>>

----------------------------------------------------------------------------
\* datetime

DayNames == <<"Monday", "Tuesday", "Wednesday", "Thursday", "Friday",
              "Saturday", "Sunday">>

\* datetime.isoformat(): the calendar fields <<day, hour, minute, second>>
isoformat(t) == <<t \div 86400, (t \div 3600) % 24, (t \div 60) % 60, t % 60>>

\* datetime.fromisoformat()
fromisoformat(s) == s[1] * 86400 + s[2] * 3600 + s[3] * 60 + s[4]

\* datetime.hour
hour(t) == (t \div 3600) % 24

\* datetime.strftime('%A')
strftime_A(t) == DayNames[((t \div 86400) % 7) + 1]

\* timedelta.total_seconds() / 60.0
total_minutes(delta) == <<delta, SecondsPerMinute>>

----------------------------------------------------------------------------
\* DwellSession

DwellSession(track_id, entry_time, exit_time, dwell_minutes) ==
    [track_id |-> track_id, entry_time |-> entry_time, exit_time |-> exit_time,
     dwell_minutes |-> dwell_minutes, day_of_week |-> None, entry_hour |-> None]

\* as calculate_dwell_time, with day_of_week and entry_hour taken from exit_time
calculate_dwell_time_from_exit(session) ==
    IF session.exit_time # None
    THEN [session EXCEPT
            !.dwell_minutes = Some(total_minutes(session.exit_time[1] - session.entry_time)),
            !.day_of_week = Some(strftime_A(session.exit_time[1])),
            !.entry_hour = Some(hour(session.exit_time[1]))]
    ELSE session

calculate_dwell_time(session) ==
    IF session.exit_time # None
    THEN [session EXCEPT
            !.dwell_minutes = Some(total_minutes(session.exit_time[1] - session.entry_time)),
            !.day_of_week = Some(strftime_A(session.entry_time)),
            !.entry_hour = Some(hour(session.entry_time))]
    ELSE session

\* end_time is exit_time, or datetime.now() (here t) for an open session
get_current_dwell_minutes(session, t) ==
    LET end_time == IF session.exit_time # None THEN session.exit_time[1] ELSE t
    IN  total_minutes(end_time - session.entry_time)

\* comparisons of a float number of minutes with an int number of minutes
AtLeast(minutes, threshold) == minutes[1] >= threshold * minutes[2]
Below(minutes, threshold) == minutes[1] < threshold * minutes[2]

----------------------------------------------------------------------------
\* DwellTimeTracker.  A store is [active |-> active_sessions, ledger |-> rows].

OpenRows(rows, track_id) ==
    {i \in 1..Len(rows) : rows[i].track_id = track_id /\ rows[i].is_active = 1}

\* as load_active_sessions, with the closed rows selected instead of the open ones
load_active_sessions_closed(rows) ==
    LET ids == {rows[i].track_id : i \in {j \in 1..Len(rows) : rows[j].is_active = 0}}
        closed(id) == {i \in 1..Len(rows) : rows[i].track_id = id /\ rows[i].is_active = 0}
        last(id) == CHOOSE i \in closed(id) : \A j \in closed(id) : j <= i
        row(id) == rows[last(id)]
    IN  [id \in ids |->
            DwellSession(id, fromisoformat(row(id).entry_time),
                         IF row(id).exit_time # None
                         THEN Some(fromisoformat(row(id).exit_time[1])) ELSE None,
                         row(id).dwell_minutes)]

\* SELECT ... WHERE is_active = 1, rows visited in rowid order; a later row of
\* the same track_id replaces the session loaded from an earlier one.
load_active_sessions(rows) ==
    LET ids == {rows[i].track_id : i \in {j \in 1..Len(rows) : rows[j].is_active = 1}}
        last(id) == CHOOSE i \in OpenRows(rows, id) : \A j \in OpenRows(rows, id) : j <= i
        row(id) == rows[last(id)]
    IN  [id \in ids |->
            DwellSession(id, fromisoformat(row(id).entry_time),
                         IF row(id).exit_time # None
                         THEN Some(fromisoformat(row(id).exit_time[1])) ELSE None,
                         row(id).dwell_minutes)]

record_entry(store, track_id, timestamp) ==
    LET session == DwellSession(track_id, timestamp, None, None)
        row == [id |-> Len(store.ledger) + 1, track_id |-> track_id,
                entry_time |-> isoformat(timestamp), exit_time |-> None,
                dwell_minutes |-> None, day_of_week |-> None,
                entry_hour |-> None, is_active |-> 1]
    IN  [active |-> [id \in DOMAIN store.active \cup {track_id} |->
                        IF id = track_id THEN session ELSE store.active[id]],
         ledger |-> Append(store.ledger, row)]

\* as record_exit, with a closed row of zero dwell written for an unknown track_id
record_exit_unknown_row(store, track_id, timestamp) ==
    LET session == calculate_dwell_time(
            [(IF track_id \in DOMAIN store.active THEN store.active[track_id]
              ELSE DwellSession(track_id, timestamp, None, None))
             EXCEPT !.exit_time = Some(timestamp)])
        closed(r) == [r EXCEPT !.exit_time = Some(isoformat(timestamp)),
                               !.dwell_minutes = session.dwell_minutes,
                               !.day_of_week = session.day_of_week,
                               !.entry_hour = session.entry_hour,
                               !.is_active = 0]
        rows == IF track_id \in DOMAIN store.active THEN store.ledger
                ELSE record_entry(store, track_id, timestamp).ledger
    IN  [active |-> [id \in DOMAIN store.active \ {track_id} |-> store.active[id]],
         ledger |-> [i \in 1..Len(rows) |->
                       IF rows[i].track_id = track_id /\ rows[i].is_active = 1
                       THEN closed(rows[i]) ELSE rows[i]]]

\* as record_exit, with only the newest open row of track_id closed
record_exit_newest_row(store, track_id, timestamp) ==
    IF track_id \notin DOMAIN store.active
    THEN store
    ELSE LET session == calculate_dwell_time(
                 [store.active[track_id] EXCEPT !.exit_time = Some(timestamp)])
             closed(r) == [r EXCEPT !.exit_time = Some(isoformat(timestamp)),
                                    !.dwell_minutes = session.dwell_minutes,
                                    !.day_of_week = session.day_of_week,
                                    !.entry_hour = session.entry_hour,
                                    !.is_active = 0]
             open == OpenRows(store.ledger, track_id)
         IN  [active |-> [id \in DOMAIN store.active \ {track_id} |-> store.active[id]],
              ledger |-> [i \in 1..Len(store.ledger) |->
                            IF i \in open /\ (\A j \in open : j <= i)
                            THEN closed(store.ledger[i]) ELSE store.ledger[i]]]

record_exit(store, track_id, timestamp) ==
    IF track_id \notin DOMAIN store.active
    THEN store
    ELSE LET session == calculate_dwell_time(
                 [store.active[track_id] EXCEPT !.exit_time = Some(timestamp)])
             closed(r) == [r EXCEPT !.exit_time = Some(isoformat(timestamp)),
                                    !.dwell_minutes = session.dwell_minutes,
                                    !.day_of_week = session.day_of_week,
                                    !.entry_hour = session.entry_hour,
                                    !.is_active = 0]
         IN  [active |-> [id \in DOMAIN store.active \ {track_id} |-> store.active[id]],
              ledger |-> [i \in 1..Len(store.ledger) |->
                            IF store.ledger[i].track_id = track_id
                               /\ store.ledger[i].is_active = 1
                            THEN closed(store.ledger[i]) ELSE store.ledger[i]]]

get_active_sessions == {active_sessions[id] : id \in DOMAIN active_sessions}

\* list.sort(key=get_current_dwell_minutes, reverse=True): longest dwell
\* first; sessions of equal dwell are listed by track_id
RECURSIVE SortedByDwell(_, _)
SortedByDwell(sessions, t) ==
    IF sessions = {} THEN <<>>
    ELSE LET first == CHOOSE s \in sessions : \A o \in sessions :
                          \/ get_current_dwell_minutes(s, t)[1]
                                > get_current_dwell_minutes(o, t)[1]
                          \/ /\ get_current_dwell_minutes(s, t)[1]
                                = get_current_dwell_minutes(o, t)[1]
                             /\ s.track_id <= o.track_id
         IN  <<first>> \o SortedByDwell(sessions \ {first}, t)

\* threshold_minutes is None (use alert_threshold) or Some(minutes); t is the
\* instant datetime.now() returns during the call
get_campers(threshold_minutes, t) ==
    LET threshold == IF threshold_minutes = None THEN alert_threshold
                     ELSE threshold_minutes[1]
    IN  SortedByDwell({session \in get_active_sessions :
                          AtLeast(get_current_dwell_minutes(session, t), threshold)},
                      t)

\* as get_warnings, with the alert threshold included in the range
get_warnings_inclusive(t) ==
    SortedByDwell({session \in get_active_sessions :
                      /\ AtLeast(get_current_dwell_minutes(session, t), warning_threshold)
                      /\ ~Below(get_current_dwell_minutes(session, t), alert_threshold)
                         => get_current_dwell_minutes(session, t)[1]
                               = alert_threshold * SecondsPerMinute},
                  t)

get_warnings(t) ==
    SortedByDwell({session \in get_active_sessions :
                      /\ AtLeast(get_current_dwell_minutes(session, t), warning_threshold)
                      /\ Below(get_current_dwell_minutes(session, t), alert_threshold)},
                  t)

----------------------------------------------------------------------------
\* TrackedPerson

TrackedPerson(track_id, centroids, last_seen) ==
    [track_id |-> track_id, centroids |-> centroids, last_seen |-> last_seen,
     crossed_line |-> FALSE, direction |-> None]

\* centroids is a deque(maxlen=30): appending to a full deque drops the oldest
update_position(track, centroid, t) ==
    LET appended == Append(track.centroids, centroid)
    IN  [track EXCEPT
            !.centroids = IF Len(appended) > maxlen THEN Tail(appended) ELSE appended,
            !.last_seen = t]

----------------------------------------------------------------------------
\* CentroidTracker.  A tracker is [tracks |-> track_id -> TrackedPerson,
\* next_id |-> n]; tracks is an OrderedDict, its keys are in insertion order,
\* which is increasing track_id.

RECURSIVE SortedIds(_)
SortedIds(ids) ==
    IF ids = {} THEN <<>>
    ELSE LET least == CHOOSE i \in ids : \A j \in ids : i <= j
         IN  <<least>> \o SortedIds(ids \ {least})

Without(f, keys) == [k \in DOMAIN f \ keys |-> f[k]]
With(f, key, value) == [k \in DOMAIN f \cup {key} |-> IF k = key THEN value ELSE f[k]]

\* as register, with the least ID that no live identity holds
register_least_free(tracker, centroid, t) ==
    LET track_id == CHOOSE i \in 0..tracker.next_id :
                       /\ i \notin DOMAIN tracker.tracks
                       /\ \A j \in 0..(i - 1) : j \in DOMAIN tracker.tracks
    IN  [tracks |-> With(tracker.tracks, track_id,
                         TrackedPerson(track_id, <<centroid>>, t)),
         next_id |-> tracker.next_id + 1]

\* track_id = self.next_id; self.tracks[track_id] = TrackedPerson(...);
\* self.next_id += 1
register(tracker, centroid, t) ==
    [tracks |-> With(tracker.tracks, tracker.next_id,
                     TrackedPerson(tracker.next_id, <<centroid>>, t)),
     next_id |-> tracker.next_id + 1]

deregister(tracker, track_id) ==
    IF track_id \in DOMAIN tracker.tracks
    THEN [tracker EXCEPT !.tracks = Without(tracker.tracks, {track_id})]
    ELSE tracker

\* for track_id in disappeared_ids: self.deregister(track_id)
RECURSIVE deregister_each(_, _)
deregister_each(tracker, track_ids) ==
    IF track_ids = <<>> THEN tracker
    ELSE deregister_each(deregister(tracker, Head(track_ids)), Tail(track_ids))

\* squared Euclidean distance matrix, distances[i][j]
compute_distances(centroids1, centroids2) ==
    [i \in 1..Len(centroids1) |->
        [j \in 1..Len(centroids2) |->
            (centroids1[i][1] - centroids2[j][1]) * (centroids1[i][1] - centroids2[j][1])
          + (centroids1[i][2] - centroids2[j][2]) * (centroids1[i][2] - centroids2[j][2])]]

\* as greedy_loop, with the nearest detection of the first row that has one
\* within the threshold accepted at each step
RECURSIVE greedy_loop_first_row(_, _, _)
greedy_loop_first_row(distances, max_d2, matches) ==
    LET n == Len(distances)
        m == Len(distances[1])
        within == {i \in 1..n : \E j \in 1..m : distances[i][j] <= max_d2}
    IN  IF within = {} THEN matches
        ELSE LET row == CHOOSE i \in within : \A h \in within : i <= h
                 column == CHOOSE j \in 1..m :
                              \A h \in 1..m :
                                 \/ distances[row][j] < distances[row][h]
                                 \/ distances[row][j] = distances[row][h] /\ j <= h
                 marked == [i \in 1..n |-> [j \in 1..m |->
                              IF i = row \/ j = column
                              THEN inf ELSE distances[i][j]]]
             IN  greedy_loop_first_row(marked, max_d2, Append(matches, <<row, column>>))

\* the while loop of _greedy_match; max_d2 is the squared threshold
RECURSIVE greedy_loop(_, _, _)
greedy_loop(distances, max_d2, matches) ==
    LET n == Len(distances)
        m == Len(distances[1])
        cells == (1..n) \X (1..m)
        min_val == CHOOSE v \in {distances[c[1]][c[2]] : c \in cells} :
                       \A c \in cells : v <= distances[c[1]][c[2]]
    IN  IF min_val > max_d2 THEN matches
        ELSE LET flat(c) == (c[1] - 1) * m + c[2]
                 argmin == CHOOSE c \in cells :
                              /\ distances[c[1]][c[2]] = min_val
                              /\ \A d \in cells :
                                    distances[d[1]][d[2]] = min_val => flat(c) <= flat(d)
                 marked == [i \in 1..n |-> [j \in 1..m |->
                              IF i = argmin[1] \/ j = argmin[2]
                              THEN inf ELSE distances[i][j]]]
             IN  greedy_loop(marked, max_d2, Append(matches, argmin))

\* as greedy_match, with twice the threshold
greedy_match_wide(distances, max_d) ==
    greedy_loop(distances, (2 * max_d) * (2 * max_d), <<>>)

greedy_match(distances, max_d) ==
    greedy_loop(distances, max_d * max_d, <<>>)

\* as Disappeared, with the window's own end counted as too long
Disappeared_inclusive(track, t) ==
    (t - track.last_seen) * fps >= max_disappeared

\* (current_time - last_seen) > max_disappeared / 30.0
Disappeared(track, t) ==
    (t - track.last_seen) * fps > max_disappeared

\* as register_each, with the matched detections registered as well
RECURSIVE register_each_all(_, _, _, _)
register_each_all(tracker, detections, skip, t) ==
    IF detections = <<>> THEN tracker
    ELSE register_each_all(register(tracker, Head(detections), t),
                           Tail(detections), skip, t)

\* for det_idx, centroid in enumerate(detections): self.register(centroid),
\* unless skip[det_idx] (det_idx in matched_detection_ids)
RECURSIVE register_each(_, _, _, _)
register_each(tracker, detections, skip, t) ==
    IF detections = <<>> THEN tracker
    ELSE register_each(IF Len(skip) > 0 /\ Head(skip)
                       THEN tracker ELSE register(tracker, Head(detections), t),
                       Tail(detections),
                       IF Len(skip) > 0 THEN Tail(skip) ELSE skip, t)

RECURSIVE update_matched(_, _, _, _, _)
update_matched(trks, track_ids, detections, matched_pairs, t) ==
    IF matched_pairs = <<>> THEN trks
    ELSE LET track_id == track_ids[Head(matched_pairs)[1]]
             centroid == detections[Head(matched_pairs)[2]]
         IN  update_matched([trks EXCEPT
                                ![track_id] = update_position(trks[track_id], centroid, t)],
                            track_ids, detections, Tail(matched_pairs), t)

tracker_update(tracker, detections, t) ==
    IF Len(detections) = 0
    THEN deregister_each(tracker,
            SortedIds({id \in DOMAIN tracker.tracks :
                          Disappeared(tracker.tracks[id], t)}))
    ELSE IF DOMAIN tracker.tracks = {}
    THEN register_each(tracker, detections, <<>>, t)
    ELSE LET track_ids == SortedIds(DOMAIN tracker.tracks)
             track_centroids ==
                 [i \in 1..Len(track_ids) |->
                     LET c == tracker.tracks[track_ids[i]].centroids IN c[Len(c)]]
             distances == compute_distances(track_centroids, detections)
             matched_pairs == greedy_match(distances, max_distance)
             matched_track_ids ==
                 {track_ids[matched_pairs[k][1]] : k \in 1..Len(matched_pairs)}
             matched_detection_ids ==
                 {matched_pairs[k][2] : k \in 1..Len(matched_pairs)}
             updated == update_matched(tracker.tracks, track_ids, detections,
                                       matched_pairs, t)
             registered ==
                 register_each([tracker EXCEPT !.tracks = updated], detections,
                               [j \in 1..Len(detections) |-> j \in matched_detection_ids],
                               t)
             disappeared_ids ==
                 {track_ids[i] : i \in {k \in 1..Len(track_ids) :
                     /\ track_ids[k] \notin matched_track_ids
                     /\ Disappeared(registered.tracks[track_ids[k]], t)}}
         IN  deregister_each(registered, SortedIds(disappeared_ids))

----------------------------------------------------------------------------
\* EntryExitCounter.update.  A counter is the record of the fields the loop
\* over the tracks reads and writes.

Side(y) == IF y < counting_line_y THEN "above" ELSE "below"

\* as CrossingDirection, with entry and exit exchanged
CrossingDirection_swapped(previous_side, direction_setting) ==
    IF previous_side = "above"
    THEN (IF direction_setting = "down" THEN "exit" ELSE "entry")
    ELSE (IF direction_setting = "down" THEN "entry" ELSE "exit")

\* the direction of a crossing from previous_side to the other side
CrossingDirection(previous_side, direction_setting) ==
    IF previous_side = "above"
    THEN (IF direction_setting = "down" THEN "entry" ELSE "exit")
    ELSE (IF direction_setting = "down" THEN "exit" ELSE "entry")

\* as IsCrossing, without the crossed_line test
IsCrossing_every_time(previous_side, current_side, track) ==
    previous_side # current_side

\* if previous_side != current_side and not track.crossed_line
IsCrossing(previous_side, current_side, track) ==
    previous_side # current_side /\ ~track.crossed_line

\* as check_track, with an exit that leaves current_occupancy as it is
check_track_exit_kept(c, track_id, t) ==
    LET track == c.tracks[track_id] IN
    IF Len(track.centroids) < 2 THEN c
    ELSE
    LET current_y == track.centroids[Len(track.centroids)][2]
        current_side == Side(current_y)
    IN  IF track_id \notin DOMAIN c.track_states
        THEN [c EXCEPT !.track_states = With(c.track_states, track_id, current_side)]
        ELSE
        LET previous_side == c.track_states[track_id] IN
        IF IsCrossing(previous_side, current_side, track)
        THEN LET direction == CrossingDirection(previous_side, c.entry_direction)
                 entry == direction = "entry"
                 store == IF ~c.dwell_tracker THEN c.store
                          ELSE IF entry THEN record_entry(c.store, track_id, t)
                          ELSE record_exit(c.store, track_id, t)
             IN  [c EXCEPT
                    !.new_entries = IF entry THEN @ + 1 ELSE @,
                    !.total_entries = IF entry THEN @ + 1 ELSE @,
                    !.new_exits = IF entry THEN @ ELSE @ + 1,
                    !.total_exits = IF entry THEN @ ELSE @ + 1,
                    !.current_occupancy = IF entry THEN @ + 1 ELSE @,
                    !.tracks[track_id].crossed_line = TRUE,
                    !.tracks[track_id].direction = Some(direction),
                    !.store = store,
                    !.notified = IF c.dwell_tracker
                                 THEN Append(@, <<direction, track_id>>) ELSE @,
                    !.events = Append(@, <<track_id, direction>>),
                    !.emitted = With(@, track_id,
                                     IF track_id \in DOMAIN @ THEN @[track_id] + 1 ELSE 1),
                    !.track_states = With(@, track_id, current_side)]
        ELSE [c EXCEPT !.track_states = With(@, track_id, current_side)]

\* the body of `for track_id, track in tracks.items()`
check_track(c, track_id, t) ==
    LET track == c.tracks[track_id] IN
    IF Len(track.centroids) < 2 THEN c
    ELSE
    LET current_y == track.centroids[Len(track.centroids)][2]
        current_side == Side(current_y)
    IN  IF track_id \notin DOMAIN c.track_states
        THEN [c EXCEPT !.track_states = With(c.track_states, track_id, current_side)]
        ELSE
        LET previous_side == c.track_states[track_id] IN
        IF IsCrossing(previous_side, current_side, track)
        THEN LET direction == CrossingDirection(previous_side, c.entry_direction)
                 entry == direction = "entry"
                 store == IF ~c.dwell_tracker THEN c.store
                          ELSE IF entry THEN record_entry(c.store, track_id, t)
                          ELSE record_exit(c.store, track_id, t)
             IN  [c EXCEPT
                    !.new_entries = IF entry THEN @ + 1 ELSE @,
                    !.total_entries = IF entry THEN @ + 1 ELSE @,
                    !.new_exits = IF entry THEN @ ELSE @ + 1,
                    !.total_exits = IF entry THEN @ ELSE @ + 1,
                    !.current_occupancy = IF entry THEN @ + 1 ELSE @ - 1,
                    !.tracks[track_id].crossed_line = TRUE,
                    !.tracks[track_id].direction = Some(direction),
                    !.store = store,
                    !.notified = IF c.dwell_tracker
                                 THEN Append(@, <<direction, track_id>>) ELSE @,
                    !.events = Append(@, <<track_id, direction>>),
                    !.emitted = With(@, track_id,
                                     IF track_id \in DOMAIN @ THEN @[track_id] + 1 ELSE 1),
                    !.track_states = With(@, track_id, current_side)]
        ELSE [c EXCEPT !.track_states = With(@, track_id, current_side)]

RECURSIVE check_tracks(_, _, _)
check_tracks(c, track_ids, t) ==
    IF track_ids = <<>> THEN c
    ELSE check_tracks(check_track(c, Head(track_ids), t), Tail(track_ids), t)

\* as counter_update, without the clean-up of the states of deregistered
\* tracks
counter_update_states_kept(c, detections, t) ==
    LET tracker == tracker_update([tracks |-> c.tracks, next_id |-> c.next_id],
                                  detections, t)
        start == [c EXCEPT !.tracks = tracker.tracks, !.next_id = tracker.next_id,
                           !.new_entries = 0, !.new_exits = 0, !.events = <<>>]
    IN  check_tracks(start, SortedIds(DOMAIN tracker.tracks), t)

\* update(detections): the tracker's update, the loop over its tracks and
\* the clean-up of the states of deregistered tracks
counter_update(c, detections, t) ==
    LET tracker == tracker_update([tracks |-> c.tracks, next_id |-> c.next_id],
                                  detections, t)
        start == [c EXCEPT !.tracks = tracker.tracks, !.next_id = tracker.next_id,
                           !.new_entries = 0, !.new_exits = 0, !.events = <<>>]
        done == check_tracks(start, SortedIds(DOMAIN tracker.tracks), t)
        inactive_ids == DOMAIN done.track_states \ DOMAIN done.tracks
    IN  [done EXCEPT !.track_states = Without(@, inactive_ids)]

\* as get_occupancy, without max(0, ...)
get_occupancy_stored == current_occupancy

get_occupancy == IF current_occupancy > 0 THEN current_occupancy ELSE 0

get_stats ==
    [total_entries |-> total_entries, total_exits |-> total_exits,
     current_occupancy |-> get_occupancy,
     active_tracks |-> Cardinality(DOMAIN tracks)]

----------------------------------------------------------------------------
\* No OccupancyTracker has been constructed
InitOccupancyIdle ==
    /\ occ = [current_occupancy |-> 0, total_entries |-> 0, total_exits |-> 0,
              active_tracks |-> 0]
    /\ last_snapshot_time = 0
    /\ snapshot_interval = 60
    /\ running = FALSE
    /\ snapshots = <<>>
    /\ event_rows = <<>>
    /\ timer_pc = "none"
    /\ wake_at = 0
    /\ stop_pc = "idle"
    /\ join_deadline = 0
    /\ stops = 0
    /\ snapshot_by = <<>>
    /\ rows_at_stop = None
    /\ history = <<>>

\* the threads that call one DwellTimeTracker
Threads == {"t1", "t2"}

\* a thread that has made no call on the store
NoCall == [pc |-> "idle", op |-> "none", track_id |-> 0, outcome |-> "none",
           retry |-> FALSE]

\* No lock is held and no call is in progress
InitFineIdle ==
    /\ lock = "free"
    /\ frame = [pc |-> "idle"]
    /\ store_lock = "free"
    /\ threads = [th \in Threads |-> NoCall]
    /\ failed_writes = 0
    /\ storage_dir = "present"
    /\ built_on = "present"
    /\ sqlite_sequence = 0
    /\ resets = 0
    /\ matching = None

----------------------------------------------------------------------------
\* Calls on a DwellTimeTracker (specification SpecStore)

\* TRUE when the store holds an open session for track_id, in memory or on disk
HasOpen(track_id) ==
    track_id \in DOMAIN active_sessions \/ OpenRows(ledger, track_id) # {}

\* A call as the caller sees it: what was asked, the store it was asked of
\* (rows in the ledger, whether track_id had an open session) and how it
\* ended ("ok", or "warning" when record_exit logs and returns)
Call(op, track_id, timestamp, outcome) ==
    [op |-> op, track_id |-> track_id, ts |-> timestamp,
     rows |-> Len(ledger), open |-> HasOpen(track_id), outcome |-> outcome]

\* the last three calls
Remember(call) ==
    IF Len(calls) < 3 THEN Append(calls, call) ELSE Append(Tail(calls), call)

RecordEntry(track_id, timestamp) ==
    /\ ncalls < MaxCalls
    /\ LET s == record_entry([active |-> active_sessions, ledger |-> ledger],
                             track_id, timestamp)
           n == record_entry([active |-> active_norestart, ledger |-> ledger_norestart],
                             track_id, timestamp)
       IN  /\ active_sessions' = s.active
           /\ ledger' = s.ledger
           /\ active_norestart' = n.active
           /\ ledger_norestart' = n.ledger
    /\ calls' = Remember(Call("entry", track_id, timestamp, "ok"))
    /\ ncalls' = ncalls + 1
    /\ UNCHANGED counterVars
    /\ UNCHANGED alertVars
    /\ UNCHANGED occupancyVars
    /\ UNCHANGED fineVars

RecordExit(track_id, timestamp) ==
    /\ ncalls < MaxCalls
    /\ LET s == record_exit([active |-> active_sessions, ledger |-> ledger],
                            track_id, timestamp)
           n == record_exit([active |-> active_norestart, ledger |-> ledger_norestart],
                            track_id, timestamp)
       IN  /\ active_sessions' = s.active
           /\ ledger' = s.ledger
           /\ active_norestart' = n.active
           /\ ledger_norestart' = n.ledger
    /\ calls' = Remember(Call("exit", track_id, timestamp,
                    IF track_id \in DOMAIN active_sessions THEN "ok" ELSE "warning"))
    /\ ncalls' = ncalls + 1
    /\ UNCHANGED counterVars
    /\ UNCHANGED alertVars
    /\ UNCHANGED occupancyVars
    /\ UNCHANGED fineVars

\* The process ends and DwellTimeTracker() is constructed again on the same
\* database file: active_sessions = {} and then _load_active_sessions().
Restart ==
    /\ ncalls < MaxCalls
    /\ active_sessions' = load_active_sessions(ledger)
    /\ calls' = Remember(Call("restart", 0, 0, "ok"))
    /\ ncalls' = ncalls + 1
    /\ UNCHANGED <<ledger, active_norestart, ledger_norestart>>
    /\ UNCHANGED counterVars
    /\ UNCHANGED alertVars
    /\ UNCHANGED occupancyVars
    /\ UNCHANGED fineVars

InitCounterIdle ==
    /\ tracks = <<>>
    /\ next_id = 0
    /\ entry_direction = "down"
    /\ dwell_tracker = FALSE
    /\ total_entries = 0
    /\ total_exits = 0
    /\ current_occupancy = 0
    /\ track_states = <<>>
    /\ ret = <<0, 0>>
    /\ events = <<>>
    /\ emitted = <<>>
    /\ notified = <<>>
    /\ frames = 0
    /\ now = 0

InitStore ==
    /\ InitCounterIdle
    /\ active_sessions = <<>>
    /\ ledger = <<>>
    /\ calls = <<>>
    /\ ncalls = 0
    /\ active_norestart = <<>>
    /\ ledger_norestart = <<>>
    /\ InitOccupancyIdle
    /\ InitFineIdle
    /\ warning_threshold = 90
    /\ alert_threshold = 120

NextStore ==
    \/ \E track_id \in TrackIds, timestamp \in Stamps : RecordEntry(track_id, timestamp)
    \/ \E track_id \in TrackIds, timestamp \in Stamps : RecordExit(track_id, timestamp)
    \/ Restart

SpecStore == InitStore /\ [][NextStore]_vars

----------------------------------------------------------------------------
\* Properties of the session store

LastCall == calls[Len(calls)]
PrevCall == calls[Len(calls) - 1]
IsCall == ncalls' = ncalls + 1
NewCall == calls'[Len(calls')]

\* a / b = c / d for fractions <<a, b>> and <<c, d>>
SameFraction(f, g) == f[1] * g[2] = g[1] * f[2]

SessionsOf(track_id) == {s \in get_active_sessions : s.track_id = track_id}

\* C4: record_entry(id, T1) for an id without open session, followed by
\* record_exit(id, T2) with T1 <= T2, leaves exactly one more ledger row, the
\* row of that visit; it is closed, its dwell is T2 - T1 in minutes, its
\* entry_hour and day_of_week are those of T1, and id is not in the active set.
C4_EntryThenExit ==
    (/\ Len(calls) >= 2
     /\ PrevCall.op = "entry" /\ ~PrevCall.open
     /\ LastCall.op = "exit" /\ LastCall.track_id = PrevCall.track_id
     /\ PrevCall.ts <= LastCall.ts)
    => /\ Len(ledger) = PrevCall.rows + 1
       /\ LET row == ledger[Len(ledger)]
          IN  /\ row.track_id = PrevCall.track_id
              /\ row.is_active = 0
              /\ row.entry_time = isoformat(PrevCall.ts)
              /\ row.exit_time = Some(isoformat(LastCall.ts))
              /\ row.dwell_minutes # None
              /\ SameFraction(row.dwell_minutes[1], <<LastCall.ts - PrevCall.ts, 60>>)
              /\ row.entry_hour = Some((PrevCall.ts \div 3600) % 24)
              /\ row.day_of_week = Some(DayNames[((PrevCall.ts \div 86400) % 7) + 1])
       /\ OpenRows(ledger, LastCall.track_id) = {}
       /\ LastCall.track_id \notin DOMAIN active_sessions

\* a visit that starts on one day and hour and ends on another
C4_Witness ==
    /\ Len(calls) >= 2
    /\ PrevCall.op = "entry" /\ ~PrevCall.open
    /\ LastCall.op = "exit" /\ LastCall.track_id = PrevCall.track_id
    /\ PrevCall.ts = StampStep /\ LastCall.ts = 2 * StampStep
    /\ ledger[Len(ledger)].is_active = 0

\* C5: record_exit for an id without open session changes neither the active
\* set nor any ledger row, adds no row, and returns after logging a warning.
C5_ExitUnknownIsNoOp ==
    [][(IsCall /\ NewCall.op = "exit" /\ ~NewCall.open)
       => /\ active_sessions' = active_sessions
          /\ ledger' = ledger
          /\ NewCall.outcome = "warning"]_vars

\* an exit for an id whose only visit is closed already
C5_Witness ==
    /\ Len(calls) >= 1
    /\ LastCall.op = "exit" /\ ~LastCall.open
    /\ LastCall.outcome = "warning"
    /\ Len(ledger) = LastCall.rows
    /\ Len(ledger) >= 1

\* C6: at most one open ledger row per identity ID.
C6_OneOpenSessionPerId ==
    \A track_id \in TrackIds : Cardinality(OpenRows(ledger, track_id)) <= 1

C8_ReloadOpenSessions ==
    (Len(calls) >= 1 /\ LastCall.op = "restart")
    => /\ \A i \in 1..Len(ledger) :
             ledger[i].is_active = 1
             => \E s \in get_active_sessions :
                   /\ s.track_id = ledger[i].track_id
                   /\ isoformat(s.entry_time) = ledger[i].entry_time
       /\ \A s \in get_active_sessions :
             \E i \in OpenRows(ledger, s.track_id) :
                 isoformat(s.entry_time) = ledger[i].entry_time

\* C9: a restart between record_entry(id, T1) and record_exit(id, T2) is not
\* visible in the ledger: the visit has one row, closed, with dwell T2 - T1,
\* and the ledger is the one the same calls produce without any restart.
C9_RestartTransparent ==
    /\ ledger = ledger_norestart
    /\ (/\ Len(calls) = 3
        /\ calls[1].op = "entry" /\ calls[2].op = "restart" /\ calls[3].op = "exit"
        /\ calls[3].track_id = calls[1].track_id)
       => /\ Len(ledger) = calls[1].rows + 1
          /\ LET row == ledger[Len(ledger)]
             IN  /\ row.track_id = calls[1].track_id
                 /\ row.is_active = 0
                 /\ row.entry_time = isoformat(calls[1].ts)
                 /\ row.exit_time = Some(isoformat(calls[3].ts))
                 /\ row.dwell_minutes # None
                 /\ SameFraction(row.dwell_minutes[1], <<calls[3].ts - calls[1].ts, 60>>)
          /\ OpenRows(ledger, calls[1].track_id) = {}
          /\ calls[1].track_id \notin DOMAIN active_sessions

\* entry, restart and exit of one id, the exit later than the entry
C9_Witness ==
    /\ Len(calls) = 3
    /\ calls[1].op = "entry" /\ calls[2].op = "restart" /\ calls[3].op = "exit"
    /\ calls[3].track_id = calls[1].track_id
    /\ calls[1].ts < calls[3].ts
    /\ ledger[Len(ledger)].is_active = 0

----------------------------------------------------------------------------
\* Frames fed to an EntryExitCounter (specification SpecCounter)

DetectionLists == UNION {[1..n -> Points] : n \in 0..MaxDet}

Update(detections) ==
    /\ frames < MaxFrames
    /\ \E c \in {counter_update(
                  [tracks |-> tracks, next_id |-> next_id,
                   entry_direction |-> entry_direction,
                   dwell_tracker |-> dwell_tracker,
                   total_entries |-> total_entries, total_exits |-> total_exits,
                   current_occupancy |-> current_occupancy,
                   track_states |-> track_states,
                   new_entries |-> 0, new_exits |-> 0, events |-> <<>>,
                   emitted |-> emitted, notified |-> notified,
                   store |-> [active |-> active_sessions, ledger |-> ledger]],
                  detections, now)} :
           /\ tracks' = c.tracks
           /\ next_id' = c.next_id
           /\ total_entries' = c.total_entries
           /\ total_exits' = c.total_exits
           /\ current_occupancy' = c.current_occupancy
           /\ track_states' = c.track_states
           /\ ret' = <<c.new_entries, c.new_exits>>
           /\ events' = c.events
           /\ emitted' = c.emitted
           /\ notified' = c.notified
           /\ active_sessions' = c.store.active
           /\ ledger' = c.store.ledger
    /\ frames' = frames + 1
    /\ UNCHANGED <<entry_direction, dwell_tracker, now>>
    /\ UNCHANGED callVars
    /\ UNCHANGED alertVars
    /\ UNCHANGED occupancyVars
    /\ UNCHANGED fineVars

\* wall-clock time passes between two frames
Tick ==
    /\ now < MaxTicks * TickSeconds
    /\ now' = now + TickSeconds
    /\ UNCHANGED <<tracks, next_id, entry_direction, dwell_tracker, total_entries,
                   total_exits, current_occupancy, track_states, ret, events,
                   emitted, notified, frames>>
    /\ UNCHANGED storeVars
    /\ UNCHANGED callVars
    /\ UNCHANGED alertVars
    /\ UNCHANGED occupancyVars
    /\ UNCHANGED fineVars

\* EntryExitCounter(counting_line_y=300, entry_direction=..., dwell_tracker=
\* DwellTimeTracker(...)) on an empty database
InitCounter ==
    /\ tracks = <<>>
    /\ next_id = 0
    /\ entry_direction \in {"down", "up"}
    /\ dwell_tracker = TRUE
    /\ total_entries = 0
    /\ total_exits = 0
    /\ current_occupancy = 0
    /\ track_states = <<>>
    /\ ret = <<0, 0>>
    /\ events = <<>>
    /\ emitted = <<>>
    /\ notified = <<>>
    /\ frames = 0
    /\ now = 0
    /\ active_sessions = <<>>
    /\ ledger = <<>>
    /\ calls = <<>>
    /\ ncalls = 0
    /\ active_norestart = <<>>
    /\ ledger_norestart = <<>>
    /\ InitOccupancyIdle
    /\ InitFineIdle
    /\ warning_threshold = 90
    /\ alert_threshold = 120

NextCounter ==
    \/ \E detections \in DetectionLists : Update(detections)
    \/ Tick

SpecCounter == InitCounter /\ [][NextCounter]_vars

----------------------------------------------------------------------------
\* Properties of the counter

IsUpdate == frames' = frames + 1

EventsOf(evs, track_id) == {k \in 1..Len(evs) : evs[k][1] = track_id}
EventsOfKind(evs, direction) == {k \in 1..Len(evs) : evs[k][2] = direction}

LastY(track) == track.centroids[Len(track.centroids)][2]

\* C1: the occupancy returned by get_occupancy() and reported by get_stats()
\* is never negative.
C1_OccupancyNonNegative ==
    /\ get_occupancy >= 0
    /\ get_stats.current_occupancy >= 0

\* more exits than entries have been counted
C1_Witness ==
    /\ total_exits > total_entries
    /\ current_occupancy < 0
    /\ get_occupancy = 0

\* C2: an identity gets at most one crossing event in its tracked lifetime:
\* once crossed_line is set it stays set, update() logs no further event for
\* the identity, and the counters change only by the events logged.
C2_OneCrossingPerIdentity ==
    [][/\ \A track_id \in DOMAIN emitted' : emitted'[track_id] <= 1
       /\ \A track_id \in DOMAIN tracks :
             tracks[track_id].crossed_line
             => /\ track_id \in DOMAIN tracks' => tracks'[track_id].crossed_line
                /\ IsUpdate => EventsOf(events', track_id) = {}
       /\ IsUpdate
          => (total_entries' - total_entries) + (total_exits' - total_exits)
                = Len(events')]_vars

\* an identity that was counted as an entry is back on the side it came from,
\* and the update that saw it there counted nothing
C2_Witness ==
    \E track_id \in DOMAIN tracks :
        /\ tracks[track_id].crossed_line
        /\ tracks[track_id].direction = Some("entry")
        /\ entry_direction = "down"
        /\ track_id \in DOMAIN track_states
        /\ track_states[track_id] = "above"
        /\ events = <<>>
        /\ emitted[track_id] = 1

C10_EntryBeforeExit ==
    \A n \in 0..Len(notified) : \A track_id \in 0..next_id :
        Cardinality({k \in 1..n : notified[k] = <<"exit", track_id>>})
            <= Cardinality({k \in 1..n : notified[k] = <<"entry", track_id>>})

\* C11: an identity that crossed inbound (the counter sent record_entry for
\* it and its session is open) and is then seen, under the same ID, back
\* across the line in the outbound direction gets an exit event in that
\* update, the counter sends record_exit for it and its session is closed.
C11_EnteredIdentityExits ==
    [][IsUpdate
       => \A track_id \in DOMAIN tracks' :
             (/\ track_id \in DOMAIN tracks
              /\ tracks[track_id].direction = Some("entry")
              /\ track_id \in DOMAIN active_sessions
              /\ track_id \in DOMAIN track_states
              /\ Side(LastY(tracks'[track_id])) # track_states[track_id]
              /\ CrossingDirection(track_states[track_id], entry_direction)
                    = "exit")
             => /\ \E k \in EventsOf(events', track_id) :
                      events'[k][2] = "exit"
                /\ Len(notified') = Len(notified) + 1
                /\ notified'[Len(notified')] = <<"exit", track_id>>
                /\ track_id \notin DOMAIN active_sessions']_vars

\* C12: the update that first observes an identity logs no event for it, and
\* when the identity's first and second observed positions lie on opposite
\* sides of the counting line, the update that sees the second position logs
\* a crossing event for it.
C12_CrossingAtSecondObservation ==
    [][IsUpdate
       => \A track_id \in DOMAIN tracks' :
             /\ track_id \notin DOMAIN tracks
                => EventsOf(events', track_id) = {}
             /\ (/\ track_id \in DOMAIN tracks
                 /\ Len(tracks[track_id].centroids) = 1
                 /\ Len(tracks'[track_id].centroids) = 2
                 /\ Side(tracks'[track_id].centroids[1][2])
                       # Side(tracks'[track_id].centroids[2][2]))
                => Cardinality(EventsOf(events', track_id)) = 1]_vars

\* C13: the stored occupancy counter is never negative, so that once an exit
\* at occupancy 0 has been followed by one entry (the only two events so far)
\* the reported occupancy is 1.
C13_StoredOccupancyClamped ==
    /\ current_occupancy >= 0
    /\ (/\ Len(notified) = 2
        /\ notified[1][1] = "exit"
        /\ notified[2][1] = "entry")
       => get_occupancy = 1

----------------------------------------------------------------------------
\* Dwell alerts of a DwellTimeTracker (specification SpecAlerts)

\* (warning_threshold, alert_threshold): the defaults of __init__ and the
\* values of the module's demonstration
AlertConfigs == {<<90, 120>>, <<5, 10>>}

\* the wall clock when the tracker is constructed
Opening == 3 * 3600

\* how long before now a recorded entry happened, in seconds: around the
\* two thresholds
Lags(warning, alert) ==
    {0, warning * SecondsPerMinute - 1, warning * SecondsPerMinute,
     alert * SecondsPerMinute - 1, alert * SecondsPerMinute}

\* tracker.record_entry(track_id, timestamp=datetime.now() - timedelta(seconds=ago))
Enter(track_id, ago) ==
    /\ ncalls < MaxVisits
    /\ \E s \in {record_entry([active |-> active_sessions, ledger |-> ledger],
                              track_id, now - ago)} :
           /\ active_sessions' = s.active
           /\ ledger' = s.ledger
    /\ ncalls' = ncalls + 1
    /\ UNCHANGED <<calls, active_norestart, ledger_norestart>>
    /\ UNCHANGED counterVars
    /\ UNCHANGED alertVars
    /\ UNCHANGED occupancyVars
    /\ UNCHANGED fineVars

\* tracker.record_exit(track_id) of an identity that is present
Leave(track_id) ==
    /\ track_id \in DOMAIN active_sessions
    /\ \E s \in {record_exit([active |-> active_sessions, ledger |-> ledger],
                             track_id, now)} :
           /\ active_sessions' = s.active
           /\ ledger' = s.ledger
    /\ UNCHANGED callVars
    /\ UNCHANGED counterVars
    /\ UNCHANGED alertVars
    /\ UNCHANGED occupancyVars
    /\ UNCHANGED fineVars

\* one second passes
Pause ==
    /\ now < Opening + MaxTicks
    /\ now' = now + 1
    /\ UNCHANGED <<tracks, next_id, entry_direction, dwell_tracker, total_entries,
                   total_exits, current_occupancy, track_states, ret, events,
                   emitted, notified, frames>>
    /\ UNCHANGED storeVars
    /\ UNCHANGED callVars
    /\ UNCHANGED alertVars
    /\ UNCHANGED occupancyVars
    /\ UNCHANGED fineVars

\* DwellTimeTracker(db_path, warning_threshold, alert_threshold) on an empty
\* database
InitAlerts ==
    /\ tracks = <<>>
    /\ next_id = 0
    /\ entry_direction = "down"
    /\ dwell_tracker = FALSE
    /\ total_entries = 0
    /\ total_exits = 0
    /\ current_occupancy = 0
    /\ track_states = <<>>
    /\ ret = <<0, 0>>
    /\ events = <<>>
    /\ emitted = <<>>
    /\ notified = <<>>
    /\ frames = 0
    /\ now = Opening
    /\ active_sessions = <<>>
    /\ ledger = <<>>
    /\ calls = <<>>
    /\ ncalls = 0
    /\ active_norestart = <<>>
    /\ ledger_norestart = <<>>
    /\ InitOccupancyIdle
    /\ InitFineIdle
    /\ \E config \in AlertConfigs :
          /\ warning_threshold = config[1]
          /\ alert_threshold = config[2]

NextAlerts ==
    \/ \E track_id \in TrackIds :
          \E ago \in Lags(warning_threshold, alert_threshold) : Enter(track_id, ago)
    \/ \E track_id \in TrackIds : Leave(track_id)
    \/ Pause

SpecAlerts == InitAlerts /\ [][NextAlerts]_vars

Listed(sessions) == {sessions[k] : k \in 1..Len(sessions)}

\* C14: at any instant, every session returned by get_campers() with the
\* default threshold is open for at least alert_threshold minutes, every
\* session returned by get_warnings() is open for at least warning_threshold
\* and less than alert_threshold minutes, and no session is in both lists.
C14_CampersAndWarningsDisjoint ==
    /\ \A session \in Listed(get_campers(None, now)) :
          now - session.entry_time >= alert_threshold * SecondsPerMinute
    /\ \A session \in Listed(get_warnings(now)) :
          /\ now - session.entry_time >= warning_threshold * SecondsPerMinute
          /\ now - session.entry_time < alert_threshold * SecondsPerMinute
    /\ Listed(get_campers(None, now)) \cap Listed(get_warnings(now)) = {}

\* a session that was one second short of the alert threshold is, one second
\* later, a camper and not a warning
C14_Witness ==
    /\ now = Opening + 1
    /\ \E session \in Listed(get_campers(None, now)) :
          now - session.entry_time = alert_threshold * SecondsPerMinute
    /\ get_warnings(now) = <<>>
    /\ get_warnings(now - 1) # <<>>

----------------------------------------------------------------------------
\* OccupancyTracker.  The object is the record
\* [occ, last_snapshot_time, snapshot_interval, snapshots, event_rows,
\*  snapshot_by]; the code between acquiring and releasing self.lock is one
\* step, because every access to these fields is made under the lock.

OccupancySnapshot(timestamp, occupancy, entries, exits, active) ==
    [timestamp |-> timestamp, current_occupancy |-> occupancy,
     total_entries |-> entries, total_exits |-> exits, active_tracks |-> active]

OccupancyEvent(timestamp, event_type, occupancy_after) ==
    [timestamp |-> timestamp, event_type |-> event_type,
     occupancy_after |-> occupancy_after]

\* INSERT INTO events; the row keeps event.timestamp.isoformat()
record_event(o, event_type, t) ==
    LET event == OccupancyEvent(t, event_type, o.occ.current_occupancy)
    IN  [o EXCEPT !.event_rows =
            Append(@, [event EXCEPT !.timestamp = isoformat(event.timestamp)])]

\* for _ in range(n): self._record_event(event_type)
RECURSIVE record_events(_, _, _, _)
record_events(o, event_type, n, t) ==
    IF n <= 0 THEN o
    ELSE record_events(record_event(o, event_type, t), event_type, n - 1, t)

\* as take_snapshot, with total_entries and total_exits in each other's column
take_snapshot_swapped(o, who, t) ==
    LET snapshot == OccupancySnapshot(t, o.occ.current_occupancy,
                        o.occ.total_exits, o.occ.total_entries, o.occ.active_tracks)
    IN  [o EXCEPT !.snapshots =
                     Append(@, [snapshot EXCEPT !.timestamp = isoformat(snapshot.timestamp)]),
                  !.snapshot_by = Append(@, who)]

\* INSERT INTO snapshots; who is the caller (not stored in the row)
take_snapshot(o, who, t) ==
    LET snapshot == OccupancySnapshot(t, o.occ.current_occupancy,
                        o.occ.total_entries, o.occ.total_exits, o.occ.active_tracks)
    IN  [o EXCEPT !.snapshots =
                     Append(@, [snapshot EXCEPT !.timestamp = isoformat(snapshot.timestamp)]),
                  !.snapshot_by = Append(@, who)]

\* as occupancy_update, recording one event row for all new entries and one
\* for all new exits of the call
occupancy_update_one_row(o, stats, t) ==
    LET new_entries == stats.total_entries - o.occ.total_entries
        new_exits == stats.total_exits - o.occ.total_exits
        updated == [o EXCEPT !.occ =
                      [current_occupancy |-> stats.current_occupancy,
                       total_entries |-> stats.total_entries,
                       total_exits |-> stats.total_exits,
                       active_tracks |-> IF stats.active_tracks = None THEN 0
                                         ELSE stats.active_tracks[1]]]
        entries_recorded == IF new_entries > 0
                            THEN record_event(updated, "entry", t)
                            ELSE updated
        exits_recorded == IF new_exits > 0
                          THEN record_event(entries_recorded, "exit", t)
                          ELSE entries_recorded
    IN  IF t - o.last_snapshot_time >= o.snapshot_interval
        THEN [take_snapshot(exits_recorded, "update", t) EXCEPT !.last_snapshot_time = t]
        ELSE exits_recorded

\* update(stats); stats.active_tracks is None when the key is missing
occupancy_update(o, stats, t) ==
    LET new_entries == stats.total_entries - o.occ.total_entries
        new_exits == stats.total_exits - o.occ.total_exits
        updated == [o EXCEPT !.occ =
                      [current_occupancy |-> stats.current_occupancy,
                       total_entries |-> stats.total_entries,
                       total_exits |-> stats.total_exits,
                       active_tracks |-> IF stats.active_tracks = None THEN 0
                                         ELSE stats.active_tracks[1]]]
        entries_recorded == IF new_entries > 0
                            THEN record_events(updated, "entry", new_entries, t)
                            ELSE updated
        exits_recorded == IF new_exits > 0
                          THEN record_events(entries_recorded, "exit", new_exits, t)
                          ELSE entries_recorded
    IN  IF t - o.last_snapshot_time >= o.snapshot_interval
        THEN [take_snapshot(exits_recorded, "update", t) EXCEPT !.last_snapshot_time = t]
        ELSE exits_recorded

reset_counters(o) ==
    [o EXCEPT !.occ.total_entries = 0, !.occ.total_exits = 0]

----------------------------------------------------------------------------
\* An OccupancyTracker, its snapshot thread and its callers
\* (specification SpecOccupancy)

\* snapshot_thread.join(timeout=5.0)
join_timeout == 5

\* snapshot_interval: the value of the module's demonstration and the default
SnapshotIntervals == {5, 60}

Max(a, b) == IF a >= b THEN a ELSE b

\* what a caller passes to update(): the counter's get_stats(), with or
\* without the active_tracks key
StatsInputs ==
    {[current_occupancy |-> Max(0, e - x), total_entries |-> e, total_exits |-> x,
      active_tracks |-> IF e + x = 0 THEN None ELSE Some(1)] :
         e \in 0..MaxTotal, x \in 0..MaxTotal}

\* the stats the module's demonstration passes in round i of its loop
DemoStats(i) ==
    [current_occupancy |-> IF i < 5 THEN i ELSE 5, total_entries |-> i,
     total_exits |-> Max(0, i - 5), active_tracks |-> Some(IF i < 5 THEN i ELSE 5)]

Tracker ==
    [occ |-> occ, last_snapshot_time |-> last_snapshot_time,
     snapshot_interval |-> snapshot_interval, snapshots |-> snapshots,
     event_rows |-> event_rows, snapshot_by |-> snapshot_by]

Becomes(o) ==
    /\ occ' = o.occ
    /\ last_snapshot_time' = o.last_snapshot_time
    /\ snapshots' = o.snapshots
    /\ event_rows' = o.event_rows
    /\ snapshot_by' = o.snapshot_by

CallsOf(op) == {k \in 1..Len(history) : history[k][1] = op}

otherVars == <<tracks, next_id, entry_direction, dwell_tracker, total_entries,
               total_exits, current_occupancy, track_states, ret, events,
               emitted, notified, frames, active_sessions, ledger, calls, ncalls,
               active_norestart, ledger_norestart, warning_threshold,
               alert_threshold, snapshot_interval>>

\* tracker.update(stats) on the frame thread
UpdateStats(stats) ==
    /\ Cardinality(CallsOf("update")) < MaxUpdates
    /\ \E o \in {occupancy_update(Tracker, stats, now)} : Becomes(o)
    /\ history' = Append(history, <<"update", stats>>)
    /\ UNCHANGED <<running, timer_pc, wake_at, stop_pc, join_deadline, stops,
                   rows_at_stop, now>>
    /\ UNCHANGED otherVars
    /\ UNCHANGED fineVars

\* tracker.reset_counters(), called when there is something to reset
ResetCounters ==
    /\ occ.total_entries + occ.total_exits > 0
    /\ \E o \in {reset_counters(Tracker)} : Becomes(o)
    /\ history' = Append(history, <<"reset">>)
    /\ UNCHANGED <<running, timer_pc, wake_at, stop_pc, join_deadline, stops,
                   rows_at_stop, now>>
    /\ UNCHANGED otherVars
    /\ UNCHANGED fineVars

\* _snapshot_loop: while self.running, then time.sleep(self.snapshot_interval)
TimerCheck ==
    /\ timer_pc = "check"
    /\ IF running
       THEN timer_pc' = "sleep" /\ wake_at' = now + snapshot_interval
       ELSE timer_pc' = "done" /\ wake_at' = wake_at
    /\ UNCHANGED <<occ, last_snapshot_time, running, snapshots, event_rows,
                   stop_pc, join_deadline, stops, snapshot_by, rows_at_stop,
                   history, now>>
    /\ UNCHANGED otherVars
    /\ UNCHANGED fineVars

\* as TimerWake, going back to the loop test without a snapshot
TimerWake_no_snapshot ==
    /\ timer_pc = "sleep"
    /\ now >= wake_at
    /\ timer_pc' = "check"
    /\ wake_at' = 0
    /\ UNCHANGED <<occ, last_snapshot_time, snapshots, event_rows, snapshot_by,
                   running, stop_pc, join_deadline, stops, rows_at_stop,
                   history, now>>
    /\ UNCHANGED otherVars
    /\ UNCHANGED fineVars

\* _snapshot_loop: the sleep is over; with self.lock: self._take_snapshot()
TimerWake ==
    /\ timer_pc = "sleep"
    /\ now >= wake_at
    /\ \E o \in {take_snapshot(Tracker, "timer", now)} : Becomes(o)
    /\ timer_pc' = "check"
    /\ wake_at' = 0
    /\ UNCHANGED <<running, stop_pc, join_deadline, stops,
                   rows_at_stop, history, now>>
    /\ UNCHANGED otherVars
    /\ UNCHANGED fineVars

\* stop(): self.running = False, then snapshot_thread.join(timeout=5.0) begins
StopBegin ==
    /\ stop_pc = "idle"
    /\ stops < MaxStops
    /\ running' = FALSE
    /\ stop_pc' = "join"
    /\ join_deadline' = now + join_timeout
    /\ UNCHANGED <<occ, last_snapshot_time, snapshots, event_rows, timer_pc,
                   wake_at, stops, snapshot_by, rows_at_stop, history, now>>
    /\ UNCHANGED otherVars
    /\ UNCHANGED fineVars

\* stop(): join returns, because the thread has ended or the timeout is over
StopJoined ==
    /\ stop_pc = "join"
    /\ timer_pc = "done" \/ now >= join_deadline
    /\ stop_pc' = "final"
    /\ join_deadline' = 0
    /\ UNCHANGED <<occ, last_snapshot_time, running, snapshots, event_rows,
                   timer_pc, wake_at, stops, snapshot_by,
                   rows_at_stop, history, now>>
    /\ UNCHANGED otherVars
    /\ UNCHANGED fineVars

\* stop(): with self.lock: self._take_snapshot(), and stop() returns
StopFinal ==
    /\ stop_pc = "final"
    /\ \E o \in {take_snapshot(Tracker, "stop", now)} :
          /\ Becomes(o)
          /\ rows_at_stop' = Some(Len(o.snapshots))
    /\ stop_pc' = "idle"
    /\ stops' = stops + 1
    /\ UNCHANGED <<running, timer_pc, wake_at, join_deadline, history, now>>
    /\ UNCHANGED otherVars
    /\ UNCHANGED fineVars

\* the instants at which something waits for the clock
Deadlines ==
    {last_snapshot_time + snapshot_interval}
    \cup (IF timer_pc = "sleep" THEN {wake_at} ELSE {})
    \cup (IF stop_pc = "join" THEN {join_deadline} ELSE {})

\* time passes until one of them
Advance ==
    /\ \E deadline \in Deadlines :
          /\ deadline > now
          /\ deadline <= MaxIntervals * snapshot_interval
          /\ now' = deadline
    /\ UNCHANGED <<occ, last_snapshot_time, running, snapshots, event_rows,
                   timer_pc, wake_at, stop_pc, join_deadline, stops, snapshot_by,
                   rows_at_stop, history>>
    /\ UNCHANGED otherVars
    /\ UNCHANGED fineVars

\* OccupancyTracker(db_path, snapshot_interval) on an empty database
InitOccupancy ==
    /\ tracks = <<>>
    /\ next_id = 0
    /\ entry_direction = "down"
    /\ dwell_tracker = FALSE
    /\ total_entries = 0
    /\ total_exits = 0
    /\ current_occupancy = 0
    /\ track_states = <<>>
    /\ ret = <<0, 0>>
    /\ events = <<>>
    /\ emitted = <<>>
    /\ notified = <<>>
    /\ frames = 0
    /\ now = 0
    /\ active_sessions = <<>>
    /\ ledger = <<>>
    /\ calls = <<>>
    /\ ncalls = 0
    /\ active_norestart = <<>>
    /\ ledger_norestart = <<>>
    /\ warning_threshold = 90
    /\ alert_threshold = 120
    /\ occ = [current_occupancy |-> 0, total_entries |-> 0, total_exits |-> 0,
              active_tracks |-> 0]
    /\ last_snapshot_time = now
    /\ snapshot_interval \in SnapshotIntervals
    /\ running = TRUE
    /\ snapshots = <<>>
    /\ event_rows = <<>>
    /\ timer_pc = "check"
    /\ wake_at = 0
    /\ stop_pc = "idle"
    /\ join_deadline = 0
    /\ stops = 0
    /\ snapshot_by = <<>>
    /\ rows_at_stop = None
    /\ history = <<>>
    /\ InitFineIdle

\* update() and reset_counters() callers, while the snapshot thread sleeps
NextEvents ==
    \/ \E stats \in StatsInputs : UpdateStats(stats)
    \/ ResetCounters
    \/ Advance

SpecEvents == InitOccupancy /\ [][NextEvents]_vars

\* the loop of the demonstration, reset_counters() and stop() callers and
\* the snapshot thread
NextOccupancy ==
    \/ UpdateStats(DemoStats(Cardinality(CallsOf("update"))))
    \/ ResetCounters
    \/ TimerCheck
    \/ TimerWake
    \/ StopBegin
    \/ StopJoined
    \/ StopFinal
    \/ Advance

SpecOccupancy == InitOccupancy /\ [][NextOccupancy]_vars

\* the loop of the demonstration, stop() callers and the snapshot thread
NextTimer ==
    \/ UpdateStats(DemoStats(Cardinality(CallsOf("update"))))
    \/ TimerCheck
    \/ TimerWake
    \/ StopBegin
    \/ StopJoined
    \/ StopFinal
    \/ Advance

\* the snapshot thread is scheduled fairly: a step of _snapshot_loop that
\* can be taken is eventually taken
SpecTimerFair ==
    InitOccupancy /\ [][NextTimer]_vars /\ WF_vars(TimerCheck) /\ WF_vars(TimerWake)

----------------------------------------------------------------------------
\* Properties of the OccupancyTracker

\* the stats of the k-th completed update() call
UpdateCalls == SelectSeq(history, LAMBDA call : call[1] = "update")
StatsOf(k) == UpdateCalls[k][2]

\* the counters set by the last completed update(), or the initial zeros
LastStats ==
    IF UpdateCalls = <<>>
    THEN [current_occupancy |-> 0, total_entries |-> 0, total_exits |-> 0,
          active_tracks |-> None]
    ELSE StatsOf(Len(UpdateCalls))

\* only update() calls have been made, with totals that never decrease
NonDecreasing ==
    /\ CallsOf("reset") = {}
    /\ \A k \in 2..Len(UpdateCalls) :
          /\ StatsOf(k).total_entries >= StatsOf(k - 1).total_entries
          /\ StatsOf(k).total_exits >= StatsOf(k - 1).total_exits

RowsOfType(event_type) ==
    {k \in 1..Len(event_rows) : event_rows[k].event_type = event_type}

\* C15: after update() calls whose cumulative totals never decrease, the
\* events table holds as many 'entry' rows as the latest total_entries and as
\* many 'exit' rows as the latest total_exits.
C15_OneRowPerCountedEvent ==
    NonDecreasing
    => /\ Cardinality(RowsOfType("entry")) = LastStats.total_entries
       /\ Cardinality(RowsOfType("exit")) = LastStats.total_exits

\* two updates have raised the totals in steps, the second by two entries
C15_Witness ==
    /\ NonDecreasing
    /\ Len(UpdateCalls) = 2
    /\ StatsOf(1).total_entries = 0
    /\ StatsOf(1).total_exits = 1
    /\ StatsOf(2).total_entries = 2
    /\ StatsOf(2).total_exits = 2
    /\ Len(event_rows) = 4

\* the step is a completed update() call
IsStatsUpdate ==
    /\ Len(history') = Len(history) + 1
    /\ history'[Len(history')][1] = "update"

\* C16: every event row carries the occupancy right after its own event:
\* when the occupancy is total_entries - total_exits before and after an
\* update(), the rows the call writes carry, in the order written, the
\* occupancy before the call plus the entries and minus the exits recorded
\* up to and including that row.
C16_SuccessiveOccupancies ==
    [][(/\ IsStatsUpdate
        /\ occ.current_occupancy = occ.total_entries - occ.total_exits
        /\ occ'.current_occupancy = occ'.total_entries - occ'.total_exits)
       => \A i \in (Len(event_rows) + 1)..Len(event_rows') :
             event_rows'[i].occupancy_after
                = occ.current_occupancy
                  + Cardinality({k \in (Len(event_rows) + 1)..i :
                                    event_rows'[k].event_type = "entry"})
                  - Cardinality({k \in (Len(event_rows) + 1)..i :
                                    event_rows'[k].event_type = "exit"})]_vars

\* C17: once stop() has returned, the snapshot thread has ended and writes
\* no further snapshot row: every row after the one stop() wrote comes from
\* another caller.
C17_TimerEndedWhenStopReturns ==
    rows_at_stop # None
    => /\ timer_pc = "done"
       /\ \A k \in (rows_at_stop[1] + 1)..Len(snapshots) :
             snapshot_by[k] # "timer"

\* C18: stop() is idempotent: the steps of a stop() called after a stop()
\* has returned leave the snapshot series, the event rows and the tracker's
\* fields as they are.
C18_StopIdempotent ==
    [][(stops >= 1 /\ stop_pc' # stop_pc)
       => /\ snapshots' = snapshots
          /\ event_rows' = event_rows
          /\ occ' = occ
          /\ running' = running
          /\ last_snapshot_time' = last_snapshot_time]_vars

\* the step on which stop() returns
IsStopReturn == stops' = stops + 1

\* the four counters of a snapshot row
CountersOf(row) ==
    <<row.current_occupancy, row.total_entries, row.total_exits, row.active_tracks>>

LastActiveTracks ==
    IF LastStats.active_tracks = None THEN 0 ELSE LastStats.active_tracks[1]

\* reset_counters() has been called since the last update()
ResetSinceUpdate ==
    history # <<>> /\ history[Len(history)][1] = "reset"

\* C19: before it returns, stop() appends one snapshot row whose occupancy,
\* entries, exits and active tracks are the counters passed to the last
\* completed update(), or zeros when update() was never called.
C19_FinalSnapshotOfLastUpdate ==
    [][IsStopReturn
       => /\ Len(snapshots') = Len(snapshots) + 1
          /\ CountersOf(snapshots'[Len(snapshots')])
                = <<LastStats.current_occupancy, LastStats.total_entries,
                    LastStats.total_exits, LastActiveTracks>>]_vars

\* C19 as amended: the row carries the occupancy and active tracks of the
\* last completed update(), and its entries and exits unless
\* reset_counters() was called after it, in which case both are zero.
C19_FinalSnapshotOfCurrentCounters ==
    [][IsStopReturn
       => /\ Len(snapshots') = Len(snapshots) + 1
          /\ CountersOf(snapshots'[Len(snapshots')])
                = <<LastStats.current_occupancy,
                    IF ResetSinceUpdate THEN 0 ELSE LastStats.total_entries,
                    IF ResetSinceUpdate THEN 0 ELSE LastStats.total_exits,
                    LastActiveTracks>>]_vars

\* stop() has returned after update(occupancy 1, entries 1) and
\* reset_counters(): its row keeps the occupancy and has no entries
C19_Witness ==
    /\ stops = 1
    /\ rows_at_stop = Some(Len(snapshots))
    /\ snapshot_by[Len(snapshots)] = "stop"
    /\ ResetSinceUpdate
    /\ LastStats.total_entries = 1
    /\ CountersOf(snapshots[Len(snapshots)]) = <<1, 0, 0, 1>>

\* the snapshot rows written by the snapshot thread
TimerRows == {k \in 1..Len(snapshot_by) : snapshot_by[k] = "timer"}

\* C20: with a fairly scheduled snapshot thread, every time the thread's
\* snapshot interval has elapsed the thread eventually persists one more
\* snapshot, whether update() is called or not, and the row it writes holds
\* the tracker's counters of that moment.
C20_SnapshotEveryInterval ==
    /\ \A n \in 0..MaxIntervals :
          (timer_pc = "sleep" /\ now >= wake_at /\ Cardinality(TimerRows) = n)
             ~> (Cardinality(TimerRows) > n)
    /\ [][timer_pc = "sleep" /\ timer_pc' = "check"
          => /\ Len(snapshots') = Len(snapshots) + 1
             /\ CountersOf(snapshots'[Len(snapshots')])
                   = <<occ.current_occupancy, occ.total_entries,
                       occ.total_exits, occ.active_tracks>>]_vars

\* the thread has written a snapshot of a running tracker on which update()
\* was never called
C20_Witness ==
    /\ running
    /\ UpdateCalls = <<>>
    /\ Cardinality(TimerRows) = 1
    /\ snapshot_by = <<"timer">>
    /\ timer_pc = "check"
    /\ now = snapshot_interval

----------------------------------------------------------------------------
\* update() step by step against the snapshot thread (specification
\* SpecLock).  The frame thread holds self.lock from the first to the last
\* statement of update(); each assignment to a field is a step of its own.

\* the fields update() assigns, in the order of the code
UpdateFields == <<"current_occupancy", "total_entries", "total_exits", "active_tracks">>

\* self.<field> = stats[<field>]; stats.get('active_tracks', 0)
assign_field(o, field, stats) ==
    [o EXCEPT !.occ[field] =
        IF field = "active_tracks"
        THEN (IF stats.active_tracks = None THEN 0 ELSE stats.active_tracks[1])
        ELSE stats[field]]

\* update(), after the assignments: the event rows and the snapshot test
record_and_snapshot(o, new_entries, new_exits, t) ==
    LET entries_recorded == IF new_entries > 0
                            THEN record_events(o, "entry", new_entries, t)
                            ELSE o
        exits_recorded == IF new_exits > 0
                          THEN record_events(entries_recorded, "exit", new_exits, t)
                          ELSE entries_recorded
    IN  IF t - o.last_snapshot_time >= o.snapshot_interval
        THEN [take_snapshot(exits_recorded, "update", t) EXCEPT !.last_snapshot_time = t]
        ELSE exits_recorded

\* update(stats): with self.lock, then new_entries and new_exits are computed
UpdateAcquire(stats) ==
    /\ frame.pc = "idle"
    /\ lock = "free"
    /\ Cardinality(CallsOf("update")) < MaxUpdates
    /\ lock' = "frame"
    /\ frame' = [pc |-> "assign", field |-> 1, stats |-> stats,
                 new_entries |-> stats.total_entries - occ.total_entries,
                 new_exits |-> stats.total_exits - occ.total_exits]
    /\ UNCHANGED occupancyVars
    /\ UNCHANGED <<now>>
    /\ UNCHANGED otherVars
    /\ UNCHANGED unlockedVars

\* update(): the next of the four assignments
UpdateAssign ==
    /\ frame.pc = "assign"
    /\ \E o \in {assign_field(Tracker, UpdateFields[frame.field], frame.stats)} :
          Becomes(o)
    /\ frame' = IF frame.field < Len(UpdateFields)
                THEN [frame EXCEPT !.field = @ + 1]
                ELSE [frame EXCEPT !.pc = "record"]
    /\ UNCHANGED <<running, timer_pc, wake_at, stop_pc, join_deadline, stops,
                   rows_at_stop, history, now, lock>>
    /\ UNCHANGED otherVars
    /\ UNCHANGED unlockedVars

\* update(): the events are recorded, the snapshot is taken when it is due,
\* the lock is released and the call returns
UpdateRecord ==
    /\ frame.pc = "record"
    /\ \E o \in {record_and_snapshot(Tracker, frame.new_entries, frame.new_exits, now)} :
          Becomes(o)
    /\ history' = Append(history, <<"update", frame.stats>>)
    /\ frame' = [pc |-> "idle"]
    /\ lock' = "free"
    /\ UNCHANGED <<running, timer_pc, wake_at, stop_pc, join_deadline, stops,
                   rows_at_stop, now>>
    /\ UNCHANGED otherVars
    /\ UNCHANGED unlockedVars

\* as TimerSnapshot, taking the snapshot without waiting for the lock
TimerSnapshot_unlocked ==
    /\ timer_pc = "sleep"
    /\ now >= wake_at
    /\ \E o \in {take_snapshot(Tracker, "timer", now)} : Becomes(o)
    /\ timer_pc' = "check"
    /\ wake_at' = 0
    /\ UNCHANGED <<running, stop_pc, join_deadline, stops,
                   rows_at_stop, history, now>>
    /\ UNCHANGED lockVars
    /\ UNCHANGED otherVars
    /\ UNCHANGED unlockedVars

\* _snapshot_loop: the sleep is over; with self.lock: self._take_snapshot().
\* The thread waits until the lock is free; taking it, writing the row and
\* releasing it is one step.
TimerSnapshot ==
    /\ timer_pc = "sleep"
    /\ now >= wake_at
    /\ lock = "free"
    /\ \E o \in {take_snapshot(Tracker, "timer", now)} : Becomes(o)
    /\ timer_pc' = "check"
    /\ wake_at' = 0
    /\ UNCHANGED <<running, stop_pc, join_deadline, stops,
                   rows_at_stop, history, now>>
    /\ UNCHANGED lockVars
    /\ UNCHANGED otherVars
    /\ UNCHANGED unlockedVars

\* the loop of the demonstration on the frame thread and the snapshot thread
NextLock ==
    \/ UpdateAcquire(DemoStats(Cardinality(CallsOf("update"))))
    \/ UpdateAssign
    \/ UpdateRecord
    \/ TimerCheck
    \/ TimerSnapshot
    \/ Advance

SpecLock == InitOccupancy /\ [][NextLock]_vars

\* the four counters update(stats) assigns
ValuesOf(stats) ==
    <<stats.current_occupancy, stats.total_entries, stats.total_exits,
      IF stats.active_tracks = None THEN 0 ELSE stats.active_tracks[1]>>

\* the stats of the update() calls made so far, the one in progress included
StatsSupplied ==
    {StatsOf(k) : k \in 1..Len(UpdateCalls)}
    \cup (IF frame.pc = "idle" THEN {} ELSE {frame.stats})

\* C21: whatever the interleaving of update() calls and snapshot ticks, the
\* four counters of every snapshot row are the initial zeros or the four
\* values passed to one single update() call, never a mixture of two calls.
C21_SnapshotOfOneUpdate ==
    \A i \in 1..Len(snapshots) :
        \/ CountersOf(snapshots[i]) = <<0, 0, 0, 0>>
        \/ \E stats \in StatsSupplied : CountersOf(snapshots[i]) = ValuesOf(stats)

\* a snapshot tick that had to wait for an update() call in progress has
\* written its row after the call, with the values of that call
C21_Witness ==
    /\ \E i \in 1..Len(snapshots) :
          /\ snapshot_by[i] = "timer"
          /\ CountersOf(snapshots[i]) # <<0, 0, 0, 0>>
          /\ snapshots[i].timestamp = isoformat(snapshot_interval)
    /\ last_snapshot_time = 0

----------------------------------------------------------------------------
\* Threads calling one DwellTimeTracker (specification SpecThreads).
\* record_entry and record_exit hold self.lock from their first statement to
\* their return; the change of active_sessions and the write to the
\* database are steps of their own, and a write may fail (sqlite3 raises).
\* timestamp is left to its default, datetime.now().

\* self.active_sessions[track_id] = DwellSession(track_id, entry_time=timestamp)
entry_memory(store, track_id, timestamp) ==
    [store EXCEPT !.active = With(store.active, track_id,
                                  DwellSession(track_id, timestamp, None, None))]

\* INSERT INTO sessions (track_id, entry_time, is_active) VALUES (?, ?, 1)
entry_insert(store, track_id, timestamp) ==
    [store EXCEPT !.ledger =
        Append(@, [id |-> Len(store.ledger) + 1, track_id |-> track_id,
                   entry_time |-> isoformat(timestamp), exit_time |-> None,
                   dwell_minutes |-> None, day_of_week |-> None,
                   entry_hour |-> None, is_active |-> 1])]

\* session.exit_time = timestamp; session.calculate_dwell_time()
exit_memory(store, track_id, timestamp) ==
    [store EXCEPT !.active[track_id] =
        calculate_dwell_time([@ EXCEPT !.exit_time = Some(timestamp)])]

\* UPDATE sessions SET exit_time, dwell_minutes, day_of_week, entry_hour,
\* is_active = 0 WHERE track_id = ? AND is_active = 1, from the session in memory
exit_update(store, track_id, timestamp) ==
    LET session == store.active[track_id]
    IN  [store EXCEPT !.ledger =
            [i \in 1..Len(store.ledger) |->
                IF store.ledger[i].track_id = track_id /\ store.ledger[i].is_active = 1
                THEN [store.ledger[i] EXCEPT
                        !.exit_time = Some(isoformat(timestamp)),
                        !.dwell_minutes = session.dwell_minutes,
                        !.day_of_week = session.day_of_week,
                        !.entry_hour = session.entry_hour,
                        !.is_active = 0]
                ELSE store.ledger[i]]]

\* del self.active_sessions[track_id]
exit_delete(store, track_id) ==
    [store EXCEPT !.active = Without(store.active, {track_id})]

Store == [active |-> active_sessions, ledger |-> ledger]

StoreBecomes(store) ==
    /\ active_sessions' = store.active
    /\ ledger' = store.ledger

\* as Acquire, entering without waiting for the lock
Acquire_unguarded(th) ==
    store_lock' = th

\* with self.lock: the thread enters when the lock is free
Acquire(th) ==
    /\ store_lock = "free"
    /\ store_lock' = th

\* the call of th ends: the lock is released on return and on an exception
Return(th, outcome) ==
    /\ threads' = [threads EXCEPT ![th].pc = "idle", ![th].outcome = outcome]
    /\ store_lock' = "free"

othersVars == <<counterVars, alertVars, occupancyVars, lockVars, configVars,
                retentionVars, resetVars, matchVars, calls, active_norestart,
                ledger_norestart>>

\* th calls record_entry(track_id) or record_exit(track_id) and takes the
\* lock; retry is TRUE when the same call of th has just ended in an error
BeginCall(th, op, track_id) ==
    /\ threads[th].pc = "idle"
    /\ ncalls < MaxThreadCalls
    /\ Acquire(th)
    /\ threads' = [threads EXCEPT ![th] =
                     [pc |-> IF op = "entry" THEN "memory" ELSE "check",
                      op |-> op, track_id |-> track_id, outcome |-> "none",
                      retry |-> /\ threads[th].op = op
                                /\ threads[th].track_id = track_id
                                /\ threads[th].outcome = "error"]]
    /\ ncalls' = ncalls + 1
    /\ UNCHANGED <<active_sessions, ledger, failed_writes>>
    /\ UNCHANGED othersVars

\* record_entry: the session is put into active_sessions
EntryMemory(th) ==
    /\ threads[th].pc = "memory"
    /\ StoreBecomes(entry_memory(Store, threads[th].track_id, now))
    /\ threads' = [threads EXCEPT ![th].pc = "insert"]
    /\ UNCHANGED <<store_lock, ncalls, failed_writes>>
    /\ UNCHANGED othersVars

\* record_entry: the INSERT is committed and the call returns
EntryInsert(th) ==
    /\ threads[th].pc = "insert"
    /\ StoreBecomes(entry_insert(Store, threads[th].track_id, now))
    /\ Return(th, "ok")
    /\ UNCHANGED <<ncalls, failed_writes>>
    /\ UNCHANGED othersVars

\* as WriteFails, with the exception swallowed: the call returns normally
WriteFails_silently(th) ==
    /\ threads[th].pc \in {"insert", "update"}
    /\ failed_writes < MaxFailures
    /\ failed_writes' = failed_writes + 1
    /\ Return(th, "ok")
    /\ UNCHANGED <<active_sessions, ledger, ncalls>>
    /\ UNCHANGED othersVars

\* record_entry, record_exit: sqlite3 raises; nothing is written, the
\* exception leaves the with blocks and reaches the caller
WriteFails(th) ==
    /\ threads[th].pc \in {"insert", "update"}
    /\ failed_writes < MaxFailures
    /\ failed_writes' = failed_writes + 1
    /\ Return(th, "error")
    /\ UNCHANGED <<active_sessions, ledger, ncalls>>
    /\ UNCHANGED othersVars

\* record_exit: an unknown track_id is logged and the call returns;
\* otherwise exit_time and the dwell are set on the session in memory
ExitMemory(th) ==
    /\ threads[th].pc = "check"
    /\ IF threads[th].track_id \notin DOMAIN active_sessions
       THEN /\ Return(th, "warning")
            /\ UNCHANGED <<active_sessions, ledger>>
       ELSE /\ StoreBecomes(exit_memory(Store, threads[th].track_id, now))
            /\ threads' = [threads EXCEPT ![th].pc = "update"]
            /\ UNCHANGED store_lock
    /\ UNCHANGED <<ncalls, failed_writes>>
    /\ UNCHANGED othersVars

\* record_exit: the UPDATE is committed
ExitUpdate(th) ==
    /\ threads[th].pc = "update"
    /\ StoreBecomes(exit_update(Store, threads[th].track_id, now))
    /\ threads' = [threads EXCEPT ![th].pc = "delete"]
    /\ UNCHANGED <<store_lock, ncalls, failed_writes>>
    /\ UNCHANGED othersVars

\* record_exit: the session leaves active_sessions and the call returns
ExitDelete(th) ==
    /\ threads[th].pc = "delete"
    /\ StoreBecomes(exit_delete(Store, threads[th].track_id))
    /\ Return(th, "ok")
    /\ UNCHANGED <<ncalls, failed_writes>>
    /\ UNCHANGED othersVars

\* get_active_sessions(): with self.lock: return list(...); the identities
\* of the sessions returned are kept as the outcome of the call
GetActiveSessions(th) ==
    /\ threads[th].pc = "idle"
    /\ ncalls < MaxThreadCalls
    /\ store_lock = "free"
    /\ threads' = [threads EXCEPT ![th] =
                     [pc |-> "idle", op |-> "active", track_id |-> 0,
                      outcome |-> {session.track_id : session \in get_active_sessions},
                      retry |-> FALSE]]
    /\ ncalls' = ncalls + 1
    /\ UNCHANGED <<active_sessions, ledger, store_lock, failed_writes>>
    /\ UNCHANGED othersVars

\* time passes between the calls
ThreadsTick ==
    /\ now < MaxTicks * TickSeconds
    /\ store_lock = "free"
    /\ now' = now + TickSeconds
    /\ UNCHANGED <<tracks, next_id, entry_direction, dwell_tracker, total_entries,
                   total_exits, current_occupancy, track_states, ret, events,
                   emitted, notified, frames>>
    /\ UNCHANGED <<storeVars, callVars, alertVars, occupancyVars, fineVars>>

NextThreads ==
    \/ \E th \in Threads, op \in {"entry", "exit"}, track_id \in TrackIds :
          BeginCall(th, op, track_id)
    \/ \E th \in Threads : EntryMemory(th)
    \/ \E th \in Threads : EntryInsert(th)
    \/ \E th \in Threads : ExitMemory(th)
    \/ \E th \in Threads : ExitUpdate(th)
    \/ \E th \in Threads : ExitDelete(th)
    \/ \E th \in Threads : WriteFails(th)
    \/ \E th \in Threads : GetActiveSessions(th)
    \/ ThreadsTick

SpecThreads == InitStore /\ [][NextThreads]_vars

----------------------------------------------------------------------------
\* Properties of the session store under concurrent callers

\* the identities that have an open row in the ledger
OpenIds == {ledger[i].track_id : i \in {j \in 1..Len(ledger) : ledger[j].is_active = 1}}

\* the step on which the call of th returns or raises
Returns(th) == threads[th].pc # "idle" /\ threads'[th].pc = "idle"

\* C22: with concurrent record_entry, record_exit and get_active_sessions
\* callers and no failed write, whenever the store's lock is free the
\* identities in active_sessions are the identities with an open ledger row;
\* get_active_sessions() returns those identities, an identity is among them
\* when its record_entry has returned and not when its record_exit has.
C22_ActiveSetIsOpenRows ==
    /\ [](store_lock = "free" /\ failed_writes = 0
            => DOMAIN active_sessions = OpenIds)
    /\ [][\A th \in Threads :
            /\ GetActiveSessions(th) /\ failed_writes = 0
                  => threads'[th].outcome = OpenIds
            /\ Returns(th) /\ failed_writes' = 0 /\ threads[th].op = "entry"
                  => threads[th].track_id \in
                        {session.track_id : session \in get_active_sessions'}
            /\ Returns(th) /\ failed_writes' = 0 /\ threads[th].op = "exit"
                  => threads[th].track_id \notin
                        {session.track_id : session \in get_active_sessions'}]_vars

\* get_active_sessions() of one thread has returned an identity entered by
\* the other thread, while that thread is inside its record_exit
C22_Witness ==
    /\ failed_writes = 0
    /\ threads["t2"].op = "active" /\ threads["t2"].outcome = {1}
    /\ threads["t1"].op = "exit" /\ threads["t1"].pc = "delete"
    /\ store_lock = "t1"

\* the step on which a ledger write of th fails
IsFailedWrite(th) == Returns(th) /\ failed_writes' = failed_writes + 1

\* C23: when the ledger write of record_entry or record_exit fails, the
\* call raises, the lock is released and active_sessions keeps the change
\* made before the write; when the same call is made again and its write
\* succeeds, the identity has a session in memory and an open row (entry),
\* or no session in memory and no open row (exit).
C23_FailedWriteAndRetry ==
    [][\A th \in Threads :
         /\ IsFailedWrite(th) =>
               /\ threads'[th].outcome = "error"
               /\ store_lock' = "free"
               /\ active_sessions' = active_sessions
               /\ threads[th].track_id \in DOMAIN active_sessions'
               /\ threads[th].op = "entry" =>
                     active_sessions'[threads[th].track_id].entry_time = now
               /\ threads[th].op = "exit" =>
                     active_sessions'[threads[th].track_id].exit_time = Some(now)
         /\ Returns(th) /\ threads[th].retry /\ threads'[th].outcome = "ok" =>
               /\ threads[th].op = "entry" =>
                     /\ threads[th].track_id \in DOMAIN active_sessions'
                     /\ active_sessions'[threads[th].track_id].exit_time = None
                     /\ OpenRows(ledger', threads[th].track_id) # {}
               /\ threads[th].op = "exit" =>
                     /\ threads[th].track_id \notin DOMAIN active_sessions'
                     /\ OpenRows(ledger', threads[th].track_id) = {}]_vars

\* a record_exit whose write had failed has been made again and has returned
C23_Witness ==
    /\ failed_writes = 1
    /\ \E th \in Threads :
          /\ threads[th].op = "exit" /\ threads[th].retry
          /\ threads[th].pc = "idle" /\ threads[th].outcome = "ok"
          /\ \E i \in 1..Len(ledger) :
                ledger[i].track_id = threads[th].track_id /\ ledger[i].is_active = 0

----------------------------------------------------------------------------
\* Construction of a DwellTimeTracker (specification SpecConfig)

\* <<warning_threshold, alert_threshold>> passed to the constructor: the
\* defaults, the thresholds of the module's demonstration, a warning
\* threshold above the alert threshold and a negative threshold
ConstructorThresholds == AlertConfigs \cup {<<120, 90>>, <<-1, 120>>}

\* DwellTimeTracker(db_path, warning_threshold, alert_threshold): the
\* thresholds are stored as given, db_path.parent.mkdir(parents=True,
\* exist_ok=True) creates a missing directory, _init_database() creates the
\* tables and _load_active_sessions() reads the open rows
Construct(warning, alert) ==
    /\ built_on = "none"
    /\ warning_threshold' = warning
    /\ alert_threshold' = alert
    /\ storage_dir' = "present"
    /\ built_on' = storage_dir
    /\ active_sessions' = load_active_sessions(ledger)
    /\ UNCHANGED <<ledger, callVars, counterVars, occupancyVars, lockVars, threadVars,
                   retentionVars, resetVars, matchVars>>

\* no DwellTimeTracker has been constructed; the database does not exist yet
InitConfig ==
    /\ tracks = <<>>
    /\ next_id = 0
    /\ entry_direction = "down"
    /\ dwell_tracker = FALSE
    /\ total_entries = 0
    /\ total_exits = 0
    /\ current_occupancy = 0
    /\ track_states = <<>>
    /\ ret = <<0, 0>>
    /\ events = <<>>
    /\ emitted = <<>>
    /\ notified = <<>>
    /\ frames = 0
    /\ now = Opening
    /\ active_sessions = <<>>
    /\ ledger = <<>>
    /\ calls = <<>>
    /\ ncalls = 0
    /\ active_norestart = <<>>
    /\ ledger_norestart = <<>>
    /\ InitOccupancyIdle
    /\ lock = "free"
    /\ frame = [pc |-> "idle"]
    /\ store_lock = "free"
    /\ threads = [th \in Threads |-> NoCall]
    /\ failed_writes = 0
    /\ warning_threshold = 90
    /\ alert_threshold = 120
    /\ storage_dir \in {"missing", "present"}
    /\ built_on = "none"
    /\ sqlite_sequence = 0
    /\ resets = 0
    /\ matching = None

\* the constructor, then record_entry(track_id) and record_exit(track_id)
\* calls on the instance it returned
NextConfig ==
    \/ \E config \in ConstructorThresholds : Construct(config[1], config[2])
    \/ \E track_id \in TrackIds : built_on # "none" /\ Enter(track_id, 0)
    \/ \E track_id \in TrackIds : built_on # "none" /\ Leave(track_id)
    \/ built_on # "none" /\ Pause

SpecConfig == InitConfig /\ [][NextConfig]_vars

\* the configuration the instance was constructed with is invalid
InvalidConfiguration ==
    \/ warning_threshold > alert_threshold
    \/ warning_threshold < 0
    \/ alert_threshold < 0
    \/ built_on = "missing"

\* C24: a DwellTimeTracker constructed with invalid thresholds or on a
\* storage path that does not exist never accepts a record_entry or
\* record_exit call: its ledger stays without rows.
C24_InvalidConfigurationRejected ==
    built_on # "none" /\ InvalidConfiguration => ledger = <<>>

----------------------------------------------------------------------------
\* C25: in every ledger state, whatever entry and exit timestamps the
\* callers supply, an open row has no dwell duration and a closed row has a
\* dwell duration that is not negative.
C25_DwellNullOrNonNegative ==
    \A i \in 1..Len(ledger) :
        /\ ledger[i].is_active = 1 => ledger[i].dwell_minutes = None
        /\ ledger[i].is_active = 0 =>
              /\ ledger[i].dwell_minutes # None
              /\ ledger[i].dwell_minutes[1][1] >= 0

----------------------------------------------------------------------------
\* Retention of the sessions table (specification SpecRetention).  The rows
\* keep the id that AUTOINCREMENT gave them; a deleted id is not given again.

SecondsPerDay == 86400

\* comparison of two isoformat() texts, as SQLite compares TEXT values
RECURSIVE TextLess(_, _)
TextLess(a, b) ==
    IF a = <<>> \/ b = <<>> THEN a = <<>> /\ b # <<>>
    ELSE IF Head(a) # Head(b) THEN Head(a) < Head(b)
    ELSE TextLess(Tail(a), Tail(b))

\* as cleanup_old_data, with entry_time compared with the cutoff
cleanup_old_data_by_entry(store, days_to_keep, t) ==
    LET cutoff_date == t - days_to_keep * SecondsPerDay
        deleted(row) == /\ TextLess(row.entry_time, isoformat(cutoff_date))
                        /\ row.is_active = 0
    IN  [store EXCEPT !.ledger = SelectSeq(@, LAMBDA row : ~deleted(row))]

\* DELETE FROM sessions WHERE exit_time < ? AND is_active = 0, with
\* cutoff_date.isoformat(); a NULL exit_time compares as unknown
cleanup_old_data(store, days_to_keep, t) ==
    LET cutoff_date == t - days_to_keep * SecondsPerDay
        deleted(row) == /\ row.exit_time # None
                        /\ TextLess(row.exit_time[1], isoformat(cutoff_date))
                        /\ row.is_active = 0
    IN  [store EXCEPT !.ledger = SelectSeq(@, LAMBDA row : ~deleted(row))]

\* days_to_keep: one day, and the default
RetentionDays == {1, 90}

\* tracker.record_entry(track_id): the new row gets the next AUTOINCREMENT id
EntryToday(track_id) ==
    /\ ncalls < MaxCalls
    /\ \E s \in {record_entry(Store, track_id, now)} :
          /\ active_sessions' = s.active
          /\ ledger' = [s.ledger EXCEPT ![Len(s.ledger)].id = sqlite_sequence + 1]
    /\ sqlite_sequence' = sqlite_sequence + 1
    /\ calls' = Remember(Call("entry", track_id, now, "ok"))
    /\ ncalls' = ncalls + 1
    /\ UNCHANGED <<active_norestart, ledger_norestart>>
    /\ UNCHANGED <<counterVars, alertVars, occupancyVars, lockVars, threadVars,
                   configVars, resetVars, matchVars>>

\* tracker.record_exit(track_id)
ExitToday(track_id) ==
    /\ ncalls < MaxCalls
    /\ StoreBecomes(record_exit(Store, track_id, now))
    /\ calls' = Remember(Call("exit", track_id, now,
                    IF track_id \in DOMAIN active_sessions THEN "ok" ELSE "warning"))
    /\ ncalls' = ncalls + 1
    /\ UNCHANGED <<active_norestart, ledger_norestart>>
    /\ UNCHANGED <<counterVars, alertVars, occupancyVars, fineVars>>

\* tracker.cleanup_old_data(days_to_keep); the call is remembered with
\* days_to_keep in the place of the timestamp
Cleanup(days_to_keep) ==
    /\ ncalls < MaxCalls
    /\ StoreBecomes(cleanup_old_data(Store, days_to_keep, now))
    /\ calls' = Remember(Call("cleanup", 0, days_to_keep, "ok"))
    /\ ncalls' = ncalls + 1
    /\ UNCHANGED <<active_norestart, ledger_norestart>>
    /\ UNCHANGED <<counterVars, alertVars, occupancyVars, fineVars>>

\* a day passes
NextDay ==
    /\ now < MaxDays * SecondsPerDay
    /\ now' = now + SecondsPerDay
    /\ UNCHANGED <<tracks, next_id, entry_direction, dwell_tracker, total_entries,
                   total_exits, current_occupancy, track_states, ret, events,
                   emitted, notified, frames>>
    /\ UNCHANGED <<storeVars, callVars, alertVars, occupancyVars, fineVars>>

NextRetention ==
    \/ \E track_id \in TrackIds : EntryToday(track_id)
    \/ \E track_id \in TrackIds : ExitToday(track_id)
    \/ \E days_to_keep \in RetentionDays : Cleanup(days_to_keep)
    \/ Restart
    \/ NextDay

SpecRetention == InitStore /\ [][NextRetention]_vars

\* the ids of the rows of a table
IdsOf(rows) == {rows[i].id : i \in 1..Len(rows)}

\* the row is closed and its exit is earlier than days_to_keep days before t
OlderThanHorizon(row, days_to_keep, t) ==
    /\ row.is_active = 0
    /\ row.exit_time # None
    /\ fromisoformat(row.exit_time[1]) < t - days_to_keep * SecondsPerDay

\* C26: cleanup_old_data removes the closed rows whose exit is older than
\* the retention horizon and no other row: open rows and closed rows inside
\* the horizon stay as they are, and active_sessions is unchanged; no other
\* operation of the store (record_entry, record_exit, restart) removes a row.
C26_CleanupRemovesOnlyOldClosed ==
    [][IF IsCall /\ NewCall.op = "cleanup"
       THEN /\ ledger' = SelectSeq(ledger,
                            LAMBDA row : ~OlderThanHorizon(row, NewCall.ts, now))
            /\ active_sessions' = active_sessions
       ELSE IdsOf(ledger) \subseteq IdsOf(ledger')]_vars

\* cleanup_old_data(1) has removed a closed row and has kept an open row
\* that was entered before the horizon
C26_Witness ==
    /\ calls # <<>>
    /\ LastCall.op = "cleanup" /\ LastCall.ts = 1
    /\ Len(ledger) < LastCall.rows
    /\ \E i \in 1..Len(ledger) :
          /\ ledger[i].is_active = 1
          /\ fromisoformat(ledger[i].entry_time) < now - SecondsPerDay

----------------------------------------------------------------------------
\* EntryExitCounter.reset() (specification SpecReset)

\* as reset, with the tracker kept instead of a new CentroidTracker()
reset_keep_tracker(c) ==
    [c EXCEPT !.total_entries = 0, !.total_exits = 0, !.current_occupancy = 0,
              !.track_states = <<>>]

\* reset(): the counters are zeroed, self.tracker = CentroidTracker() (no
\* tracks, next_id 0, the default max_disappeared and max_distance) and
\* self.track_states = {}
reset(c) ==
    [c EXCEPT !.total_entries = 0, !.total_exits = 0, !.current_occupancy = 0,
              !.tracks = <<>>, !.next_id = 0, !.track_states = <<>>]

\* counter.reset(); the dwell tracker is not told
Reset ==
    /\ resets < MaxResets
    /\ \E c \in {reset([tracks |-> tracks, next_id |-> next_id,
                        total_entries |-> total_entries, total_exits |-> total_exits,
                        current_occupancy |-> current_occupancy,
                        track_states |-> track_states])} :
           /\ tracks' = c.tracks
           /\ next_id' = c.next_id
           /\ total_entries' = c.total_entries
           /\ total_exits' = c.total_exits
           /\ current_occupancy' = c.current_occupancy
           /\ track_states' = c.track_states
    /\ resets' = resets + 1
    /\ UNCHANGED <<entry_direction, dwell_tracker, ret, events, emitted, notified,
                   frames, now>>
    /\ UNCHANGED <<storeVars, callVars, alertVars, occupancyVars, lockVars,
                   threadVars, configVars, retentionVars, matchVars>>

\* frames with at most one person in view
OneWalker == {<<>>} \cup {<<point>> : point \in Points}

NextReset ==
    \/ \E detections \in OneWalker : Update(detections)
    \/ Tick
    \/ Reset

SpecReset == InitCounter /\ [][NextReset]_vars

\* C27: reset() leaves cumulative entries, cumulative exits, occupancy and
\* the active-track count at 0 and no identity, position history, crossed
\* flag or side record behind; the detections of the next frame are
\* registered as new identities with one position, not crossed, without a
\* recorded side (so that they can cross and be counted once again).
C27_ResetForgetsEverything ==
    [][/\ resets' = resets + 1 =>
            /\ total_entries' = 0 /\ total_exits' = 0
            /\ current_occupancy' = 0 /\ get_occupancy' = 0
            /\ get_stats'.active_tracks = 0
            /\ tracks' = <<>>
            /\ track_states' = <<>>
       /\ resets > 0 /\ tracks = <<>> /\ frames' = frames + 1 =>
            /\ ret' = <<0, 0>>
            /\ track_states' = <<>>
            /\ \A track_id \in DOMAIN tracks' :
                  /\ Len(tracks'[track_id].centroids) = 1
                  /\ ~tracks'[track_id].crossed_line
       /\ resets > 0 /\ frames' = frames + 1 =>
            \A track_id \in DOMAIN tracks \cap DOMAIN tracks' \cap DOMAIN track_states :
               /\ ~tracks[track_id].crossed_line
               /\ tracks'[track_id].centroids # tracks[track_id].centroids
               /\ Side(LastY(tracks'[track_id])) # track_states[track_id]
               => /\ tracks'[track_id].crossed_line
                  /\ total_entries' + total_exits' = total_entries + total_exits + 1]_vars

\* after reset() the identity registered for a new detection has crossed
\* the line and has been counted
C27_Witness ==
    /\ resets = 1
    /\ total_entries + total_exits = 1
    /\ events # <<>>
    /\ \E track_id \in DOMAIN tracks : tracks[track_id].crossed_line
    /\ frames = MaxFrames

----------------------------------------------------------------------------
\* A CentroidTracker on its own (specification SpecTracker)

\* Centroids on one vertical: 50 = max_distance, 60 and 110 pixels apart
MatchPoints == {<<320, 290>>, <<320, 340>>, <<320, 400>>}

SeenLists == UNION {[1..n -> MatchPoints] : n \in 0..MaxSeen}

\* what update() computes before it changes a track: track_ids,
\* track_centroids, distances and matched_pairs; pairs is None when the
\* frame is empty or no track exists (nothing is matched then)
frame_matching(tracker, detections) ==
    LET track_ids == SortedIds(DOMAIN tracker.tracks)
        track_centroids ==
            [i \in 1..Len(track_ids) |->
                LET c == tracker.tracks[track_ids[i]].centroids IN c[Len(c)]]
        distances == compute_distances(track_centroids, detections)
    IN  [detections |-> detections, track_ids |-> track_ids,
         distances |-> distances,
         pairs |-> IF Len(detections) = 0 \/ DOMAIN tracker.tracks = {}
                   THEN None
                   ELSE Some(greedy_match(distances, max_distance))]

\* tracker.update(detections)
TrackerUpdate(detections) ==
    /\ frames < MaxRounds
    /\ \E tracker \in {tracker_update([tracks |-> tracks, next_id |-> next_id],
                                      detections, now)} :
          /\ tracks' = tracker.tracks
          /\ next_id' = tracker.next_id
    /\ \E m \in {frame_matching([tracks |-> tracks, next_id |-> next_id], detections)} :
          matching' = m
    /\ frames' = frames + 1
    /\ UNCHANGED <<entry_direction, dwell_tracker, total_entries, total_exits,
                   current_occupancy, track_states, ret, events, emitted, notified,
                   now>>
    /\ UNCHANGED <<storeVars, callVars, alertVars, occupancyVars, lockVars,
                   threadVars, configVars, retentionVars, resetVars>>

NextTracker ==
    \E detections \in SeenLists : TrackerUpdate(detections)

\* CentroidTracker(max_disappeared=30, max_distance=50), fed frames that
\* follow each other without a pause
SpecTracker == InitStore /\ [][NextTracker]_vars

\* the pairs accepted for the last frame, in the order of acceptance
Pairs == matching.pairs[1]
Matched == matching # None /\ matching.pairs # None
DistanceOf(pair) == matching.distances[pair[1]][pair[2]]
Rows == 1..Len(matching.track_ids)
Columns == 1..Len(matching.detections)

\* the rows and columns not matched by the first k pairs
RowsLeft(k) == Rows \ {Pairs[h][1] : h \in 1..k}
ColumnsLeft(k) == Columns \ {Pairs[h][2] : h \in 1..k}

\* C28: every pair accepted by _greedy_match has the least distance among
\* all pairs of an identity and a detection not matched before it, so the
\* pairs are accepted in non-decreasing order of distance; a pair exactly
\* max_distance apart is accepted (none is left unmatched at the end).
C28_GlobalMinimumFirst ==
    Matched =>
       /\ \A k \in 1..Len(Pairs) :
             /\ Pairs[k][1] \in RowsLeft(k - 1)
             /\ Pairs[k][2] \in ColumnsLeft(k - 1)
             /\ \A i \in RowsLeft(k - 1), j \in ColumnsLeft(k - 1) :
                   DistanceOf(Pairs[k]) <= matching.distances[i][j]
       /\ \A k \in 2..Len(Pairs) : DistanceOf(Pairs[k - 1]) <= DistanceOf(Pairs[k])
       /\ \A i \in RowsLeft(Len(Pairs)), j \in ColumnsLeft(Len(Pairs)) :
             matching.distances[i][j] # max_distance * max_distance

\* two pairs have been accepted, the second one exactly max_distance apart;
\* the first one is not the nearest detection of the first identity's row
C28_Witness ==
    /\ Matched
    /\ Len(Pairs) = 2
    /\ Pairs[1][1] # 1
    /\ DistanceOf(Pairs[1]) < DistanceOf(Pairs[2])
    /\ DistanceOf(Pairs[2]) = max_distance * max_distance
    /\ DistanceOf(<<1, Pairs[1][2]>>) > max_distance * max_distance


\* C29: the pairs matched for a frame form a partial injection between the
\* live identities and the detections: no identity and no detection is in
\* two pairs, every pair is at most max_distance apart, there are at most
\* min(#identities, #detections) pairs, and no identity and detection left
\* unmatched are within max_distance of each other.
C29_MatchingIsPartialInjection ==
    Matched =>
       /\ \A k \in 1..Len(Pairs) :
             /\ Pairs[k][1] \in Rows /\ Pairs[k][2] \in Columns
             /\ matching.track_ids[Pairs[k][1]] \in DOMAIN tracks
             /\ DistanceOf(Pairs[k]) <= max_distance * max_distance
       /\ \A k, h \in 1..Len(Pairs) :
             k # h => Pairs[k][1] # Pairs[h][1] /\ Pairs[k][2] # Pairs[h][2]
       /\ Len(Pairs) <= Cardinality(Rows) /\ Len(Pairs) <= Cardinality(Columns)
       /\ \A i \in RowsLeft(Len(Pairs)), j \in ColumnsLeft(Len(Pairs)) :
             matching.distances[i][j] > max_distance * max_distance

\* one pair has been matched; an identity and a detection more than
\* max_distance apart are left unmatched
C29_Witness ==
    /\ Matched
    /\ Len(Pairs) = 1
    /\ RowsLeft(1) # {} /\ ColumnsLeft(1) # {}
    /\ \E i \in RowsLeft(1), j \in ColumnsLeft(1) :
          matching.distances[i][j] < inf

\* the detections of the frame of this step that were not matched
UnmatchedColumns ==
    {j \in 1..Len(matching'.detections) :
        matching'.pairs = None
        \/ \A k \in 1..Len(matching'.pairs[1]) : matching'.pairs[1][k][2] # j}

\* the identity that holds detection j after the step: the identity it was
\* matched to, or the identity registered for it
OwnerOf(j) ==
    IF j \in UnmatchedColumns
    THEN next_id + Cardinality({h \in UnmatchedColumns : h < j})
    ELSE LET k == CHOOSE h \in 1..Len(matching'.pairs[1]) : matching'.pairs[1][h][2] = j
         IN  matching'.track_ids[matching'.pairs[1][k][1]]

\* C30: after update(detections) with a non-empty list, every detection is
\* the last position of one live identity of its own: a matched detection
\* has been appended to the identity it was matched to, an unmatched one
\* (every one when no identity was live) is the only position of a newly
\* registered identity, and as many identities are registered as there
\* are unmatched detections.
C30_EveryDetectionHasItsIdentity ==
    [][frames' = frames + 1 /\ matching'.detections # <<>> =>
          LET detections == matching'.detections
          IN  /\ \A j \in 1..Len(detections) :
                    /\ OwnerOf(j) \in DOMAIN tracks'
                    /\ tracks'[OwnerOf(j)].centroids =
                          IF j \in UnmatchedColumns THEN <<detections[j]>>
                          ELSE Append(tracks[OwnerOf(j)].centroids, detections[j])
                    /\ j \in UnmatchedColumns <=> OwnerOf(j) \notin DOMAIN tracks
              /\ \A j, h \in 1..Len(detections) : j # h => OwnerOf(j) # OwnerOf(h)
              /\ DOMAIN tracks = {} => UnmatchedColumns = 1..Len(detections)
              /\ Cardinality(DOMAIN tracks' \ DOMAIN tracks) = Cardinality(UnmatchedColumns)
              /\ next_id' = next_id + Cardinality(UnmatchedColumns)]_vars

\* of the two detections of the last frame one has been appended to the
\* identity it was matched to and the other has been registered
C30_Witness ==
    /\ Matched
    /\ Len(matching.detections) = 2
    /\ Len(Pairs) = 1
    /\ Len(tracks[matching.track_ids[Pairs[1][1]]].centroids) = 2
    /\ Len(tracks[next_id - 1].centroids) = 1
    /\ tracks[next_id - 1].centroids[1] \in {matching.detections[1], matching.detections[2]}

----------------------------------------------------------------------------
\* A CentroidTracker fed frames with pauses between them (specification
\* SpecLifetime)

\* Centroids more than max_distance apart
FarPoints == {<<320, 290>>, <<320, 400>>}

\* frames with at most one person in view
Sightings == {<<>>} \cup {<<point>> : point \in FarPoints}

\* tracker.update(detections)
Sight(detections) ==
    /\ frames < MaxSightings
    /\ \E tracker \in {tracker_update([tracks |-> tracks, next_id |-> next_id],
                                      detections, now)} :
          /\ tracks' = tracker.tracks
          /\ next_id' = tracker.next_id
    /\ \E m \in {frame_matching([tracks |-> tracks, next_id |-> next_id], detections)} :
          matching' = m
    /\ frames' = frames + 1
    /\ UNCHANGED <<entry_direction, dwell_tracker, total_entries, total_exits,
                   current_occupancy, track_states, ret, events, emitted, notified,
                   now>>
    /\ UNCHANGED <<storeVars, callVars, alertVars, occupancyVars, lockVars,
                   threadVars, configVars, retentionVars, resetVars>>

\* one second passes between two frames
Wait ==
    /\ now < MaxWait
    /\ now' = now + 1
    /\ UNCHANGED <<tracks, next_id, entry_direction, dwell_tracker, total_entries,
                   total_exits, current_occupancy, track_states, ret, events,
                   emitted, notified, frames>>
    /\ UNCHANGED <<storeVars, callVars, alertVars, occupancyVars, fineVars>>

NextLifetime ==
    \/ \E detections \in Sightings : Sight(detections)
    \/ Wait

SpecLifetime == InitStore /\ [][NextLifetime]_vars

\* the identities matched by the frame of this step
MatchedIds ==
    IF matching'.pairs = None THEN {}
    ELSE {matching'.track_ids[matching'.pairs[1][k][1]] :
             k \in 1..Len(matching'.pairs[1])}

\* C31: update() retires an identity if and only if it was live before the
\* call, was not matched in the call (none is matched by an empty frame) and
\* was last seen more than max_disappeared / 30 seconds ago; an identity
\* matched or registered in the call is live after it.
C31_RetiredIffUnmatchedTooLong ==
    [][frames' = frames + 1 =>
          /\ \A track_id \in DOMAIN tracks :
                track_id \notin DOMAIN tracks'
                <=> /\ track_id \notin MatchedIds
                    /\ (now - tracks[track_id].last_seen) * 30 > max_disappeared
          /\ matching'.detections = <<>> => MatchedIds = {}
          /\ MatchedIds \subseteq DOMAIN tracks'
          /\ \A track_id \in next_id..(next_id' - 1) : track_id \in DOMAIN tracks'
          /\ DOMAIN tracks' \subseteq DOMAIN tracks \cup next_id..(next_id' - 1)]_vars

\* a frame with a detection has matched one of two live identities and has
\* retired the other, unmatched for two seconds; the matched one was kept
\* by the frame before, unmatched for one second
C31_Witness ==
    /\ matching # None /\ matching.pairs # None
    /\ Len(matching.track_ids) = 2
    /\ Len(matching.pairs[1]) = 1
    /\ DOMAIN tracks = {matching.track_ids[matching.pairs[1][1][1]]}
    /\ \E track_id \in DOMAIN tracks : Len(tracks[track_id].centroids) = 2
    /\ now = 2

\* C32: update() never matches a detection to an identity that was last
\* seen more than max_disappeared / 30 seconds before the call, however the
\* calls are spaced in time.
C32_NoMatchAfterTheWindow ==
    [][frames' = frames + 1 =>
          \A track_id \in MatchedIds :
             (now - tracks[track_id].last_seen) * 30 <= max_disappeared]_vars

\* C36: within one CentroidTracker the IDs are handed out in increasing
\* order from 0 and never again: next_id starts at 0 and never decreases,
\* every live identity has an ID below next_id (with it as its track_id),
\* and the identities registered by a call get the IDs from next_id on, one
\* each, whatever was retired before.
C36_IdsNeverReused ==
    /\ next_id = 0
    /\ [](\A track_id \in DOMAIN tracks :
             track_id < next_id /\ tracks[track_id].track_id = track_id)
    /\ [][/\ next_id' >= next_id
          /\ DOMAIN tracks' \ DOMAIN tracks = next_id..(next_id' - 1)]_vars

\* identity 0 was retired before the last frame, whose detection found no
\* live identity and was registered with ID 1
C36_Witness ==
    /\ matching # None
    /\ matching.track_ids = <<>>
    /\ matching.detections # <<>>
    /\ DOMAIN tracks = {1}
    /\ next_id = 2

----------------------------------------------------------------------------
\* Snapshot rows and event rows of the OccupancyTracker

\* C33: update() never persists a snapshot row: every row of the snapshots
\* table was written by the snapshot thread or by stop(), so the number of
\* rows does not depend on the update() calls.
C33_UpdateWritesNoSnapshot ==
    \A k \in 1..Len(snapshot_by) : snapshot_by[k] # "update"

\* C38: an update() that follows reset_counters() with the cumulative
\* totals of the update() before it records no event row.
C38_NoEventRecordedTwice ==
    [][(/\ IsStatsUpdate
        /\ ResetSinceUpdate
        /\ history'[Len(history')][2].total_entries = LastStats.total_entries
        /\ history'[Len(history')][2].total_exits = LastStats.total_exits)
       => event_rows' = event_rows]_vars

----------------------------------------------------------------------------
\* Bookkeeping of the EntryExitCounter

\* C34: after every update() the identities with a recorded side are live
\* identities of the tracker: the side of a retired identity is removed.
C34_StatesOnlyOfLiveTracks ==
    DOMAIN track_states \subseteq DOMAIN tracks

\* identity 0 was counted crossing the line, so it had a recorded side, and
\* has been retired since; no side is recorded any more
C34_Witness ==
    /\ 0 \in DOMAIN emitted
    /\ 0 \notin DOMAIN tracks
    /\ 0 \notin DOMAIN track_states
    /\ frames > 3

\* C37: between resets the stored occupancy is total_entries - total_exits,
\* neither total decreases, and the pair returned by update() is the
\* increase of the two totals during the call.
C37_OccupancyIsEntriesMinusExits ==
    /\ [](current_occupancy = total_entries - total_exits)
    /\ [][resets' = resets =>
             /\ total_entries' >= total_entries
             /\ total_exits' >= total_exits]_vars
    /\ [][frames' = frames + 1 =>
             ret' = <<total_entries' - total_entries,
                      total_exits' - total_exits>>]_vars

\* the last update() has counted an exit while nobody was counted inside:
\* it returned (0, 1) and the stored occupancy is -1
C37_Witness ==
    /\ ret = <<0, 1>>
    /\ total_entries = 0
    /\ total_exits = 1
    /\ current_occupancy = -1

\* C35: an ID that has an open session in the attached session store is
\* never given to a newly registered identity, also after reset().
C35_OpenSessionIdNotReassigned ==
    [][\A track_id \in DOMAIN tracks' \ DOMAIN tracks :
          track_id \notin DOMAIN active_sessions]_vars

----------------------------------------------------------------------------
\* Sessions in memory and rows of the ledger

\* C39: whenever no call holds the store's lock, also after a call whose
\* ledger write failed, every session of the in-memory active set (what
\* get_active_sessions(), get_campers() and get_warnings() return from) has
\* no exit timestamp and no dwell duration.
C39_ActiveSessionsAreOpen ==
    store_lock = "free" =>
       \A track_id \in DOMAIN active_sessions :
          /\ active_sessions[track_id].exit_time = None
          /\ active_sessions[track_id].dwell_minutes = None

\* C40: every closed ledger row is consistent with its own timestamps: its
\* dwell is its exit timestamp minus its own entry timestamp in minutes, its
\* day_of_week and entry_hour are those of its own entry timestamp.
C40_ClosedRowsConsistent ==
    \A i \in 1..Len(ledger) :
       ledger[i].is_active = 0 =>
          LET entry_time == fromisoformat(ledger[i].entry_time)
          IN  /\ ledger[i].exit_time # None
              /\ ledger[i].dwell_minutes # None
              /\ SameFraction(ledger[i].dwell_minutes[1],
                              <<fromisoformat(ledger[i].exit_time[1]) - entry_time, 60>>)
              /\ ledger[i].day_of_week = Some(DayNames[((entry_time \div 86400) % 7) + 1])
              /\ ledger[i].entry_hour = Some((entry_time \div 3600) % 24)

====
